---- MODULE Spec2Model ----
\* Verification model of lambda-mips-api: the upstream login/fetch/logout
\* cycle (mip_api/upstream.py), the S3 write-through cache (mip_api/s3.py),
\* the chart pipeline (mip_api/chart.py) and the Lambda entry point
\* (mip_api/__init__.py).
EXTENDS Integers, Sequences, FiniteSets, TLC

VARIABLES
    pc,             \* position of the single Python thread
    entry,          \* entry point of the running call
    fn,             \* upstream function being executed: get_chart / trial_balances
    event,          \* API Gateway event of the running lambda_handler call
    ssm_secrets,    \* local `ssm_secrets` of lambda_handler: "none" until loaded
    access_token,   \* local `access_token` of get_chart / trial_balances
    data,           \* local `chart_dict` / `bal_dict` of the upstream function
    period,         \* local `(start_str, end_str)` of trial_balances
    attempt,        \* HTTP attempt number inside the backoff-decorated call
    trace,          \* function calls issued by the running call, in order
    upstream_data,  \* argument `upstream_data` of s3.cache
    cache_path,     \* argument `path` of s3.cache
    cache_data,     \* local `cache_data` of s3.cache
    result,         \* outcome of a direct call: returned value or raised error
    response,       \* API Gateway response of lambda_handler
    store,          \* S3 bucket content, one object per cache path
    phase,          \* dataset the running call works on: program / gl / bal
    gl_chart,       \* local `gl_chart` of lambda_handler
    cycle,          \* history of the running upstream call (login .. logout)
    cc,             \* history of the running s3.cache call
    hist,           \* history across calls, per cache path
    raw_chart,      \* argument `chart_dict` of a direct process_chart call
    query,          \* argument `params` of a direct process_chart call
    processed,      \* value returned by process_chart
    reprocessed,    \* value returned by process_chart applied to `processed`
    limited,        \* value returned by a direct limit_chart call
    tags,           \* value returned by a direct list_tags call
    logins,         \* outcomes of the attempts of the _login call under way or
                    \* just over, in order
    logouts,        \* outcomes of the attempts of the _logout call under way or
                    \* just over, in order
    mips_dict,      \* attribute `mips_dict` of the App instance
    app_secrets,    \* attribute `_ssm_secrets` of the App instance: "none"
                    \* (None), "empty" ({}) or "loaded"
    s3cache         \* S3Cache: max_age_days, the clock in days, the objects of
                    \* the bucket and, per key, the text last stored

vars == << pc, entry, fn, event, ssm_secrets, access_token, data, period, attempt, trace,
           upstream_data, cache_path, cache_data, result, response, store,
           phase, gl_chart, cycle, cc, hist,
           raw_chart, query, processed, reprocessed, limited, tags, logins, logouts,
           mips_dict, app_secrets, s3cache >>

-----------------------------------------------------------------------------
\* Bounds of the model

\* HTTP attempts one backoff-decorated call may make before its time budget
\* is taken as exhausted
MaxTries == 2

\* entries of a raw chart handed to process_chart directly
MaxChart == 3

\* days the clock of the S3Cache model runs
MaxDays == 4

-----------------------------------------------------------------------------
\* Python / JSON values.  Every value is a record [kind, items]; a dict is
\* the sequence of its (key, value) entries in insertion order.

None == [kind |-> "none", items |-> << >>]

Dict(items) == [kind |-> "dict", items |-> items]

EmptyDict == Dict(<< >>)

\* Python truthiness (`if upstream_data:` / `if not out_data:`)
Truthy(v) == v.kind = "dict" /\ Len(v.items) > 0

Range(s) == { s[i] : i \in 1..Len(s) }

\* Python `==` on the values above: dict equality ignores insertion order
PyEq(a, b) ==
    /\ a.kind = b.kind
    /\ Len(a.items) = Len(b.items)
    /\ Range(a.items) = Range(b.items)

Keys(items) == { items[i].code : i \in 1..Len(items) }

Lookup(items, k) == (CHOOSE i \in 1..Len(items) : items[i].code = k)

Entry(c, n) == [code |-> c, name |-> n]

\* Python `d[key] = value` on a dict
SetKey(items, key, value) ==
    IF key \in Keys(items)
    THEN [ i \in 1..Len(items) |->
             IF items[i].code = key THEN Entry(key, value) ELSE items[i] ]
    ELSE Append(items, Entry(key, value))

-----------------------------------------------------------------------------
\* Upstream data the model draws from.  Account codes are digit strings,
\* names are character strings (one element per character).

ChartA == << Entry(<<1,2,3,4,5,6,0,0>>, <<"P","r","o","g"," ","A">>),
             Entry(<<1,2,3,4,5,6,0,1>>, <<"P","r","o","g"," ","B">>),
             Entry(<<5,4,3,2,1>>,       <<"O","l","d">>) >>

\* the same mapping as ChartA, listed by upstream in another order
ChartA2 == << ChartA[3], ChartA[1], ChartA[2] >>

ChartB == << Entry(<<2,3,4,5,6,7,0,0>>, <<"O","p","s","(","#",")">>),
             Entry(<<5,4,3,2,1>>,       <<"O","l","d">>) >>

\* a chart whose entries are all left out when inactive codes are hidden:
\* an omitted code and a five-character code
ChartC == << Entry(<<9,9,9,9,0,0,0,0>>, <<"U","n","f","u","n","d","e","d">>),
             Entry(<<5,4,3,2,1>>, <<"O","l","d">>) >>

ProgramCharts == { Dict(ChartA), Dict(ChartA2), Dict(ChartB) }

GLChart == << Entry(<<1,0,0,0>>, <<"C","a","s","h">>) >>

GLCharts == { Dict(GLChart) }

\* upstream answer of GetAccountBalances
BalanceSuccess == << Entry("executionResult", "SUCCESS"),
                     Entry("extraInformation", "Level1") >>

BalanceResponses == { Dict(BalanceSuccess) }

Periods == { "2025-04" }

Token == "testToken"

NoToken == "None"

-----------------------------------------------------------------------------
\* Deployment configuration (environment variables) and routes

ApiChartOfAccounts == "/accounts"

ApiValidTags == "/tags"

ApiTrialBalances == "/balances"

OtherCode == <<0,0,0,0,0,1>>

NoProgramCode == <<0,0,0,0,0,0>>

CodesToOmit == << <<9,9,9,9,0,0>>, <<9,9,9,8,0,0>> >>

\* variant: one program snapshot whatever hide_inactive is
PathProgram_Shared(hide_inactive) == "program-coa.json"

\* S3 object paths built by lambda_handler
PathProgram(hide_inactive) ==
    IF hide_inactive THEN "program-coa.json" ELSE "program-coa-full.json"

PathGL(hide_inactive) ==
    IF hide_inactive THEN "gl-coa.json" ELSE "gl-coa-full.json"

PathBalances(hide_inactive) ==
    IF hide_inactive THEN "balances.json" ELSE "balances-full.json"

Paths == { PathProgram(TRUE), PathProgram(FALSE), PathGL(TRUE), PathBalances(TRUE) }

\* the `limit` query-string parameter: absent, or its text
NoLimit == [present |-> FALSE, text |-> << >>]

Limit(text) == [present |-> TRUE, text |-> text]

\* events the model sends: the three routes, an unknown route, no path
Events ==
    { [hasPath |-> TRUE, path |-> p, show_inactive |-> s,
       hide_no_program |-> FALSE, limit |-> NoLimit] :
          p \in { ApiChartOfAccounts, ApiValidTags, "/invalid" }, s \in BOOLEAN }
    \cup { [hasPath |-> TRUE, path |-> ApiTrialBalances, show_inactive |-> FALSE,
            hide_no_program |-> FALSE, limit |-> NoLimit],
           [hasPath |-> FALSE, path |-> "", show_inactive |-> FALSE,
            hide_no_program |-> FALSE, limit |-> NoLimit] }

\* texts of the `limit` parameter: two integers that are accepted, and a
\* non-numeric, an empty and a negative one
GoodLimits == { <<"0">>, <<"2">> }

BadLimits == { <<"a","b","c">>, << >>, <<"-","1">> }

\* events of the single-request specification: the events above, the chart
\* routes with hide_no_program_code and a limit, and every route with a
\* limit that is not a non-negative integer
RouteEvents ==
    Events
    \cup { [hasPath |-> TRUE, path |-> p, show_inactive |-> s,
            hide_no_program |-> TRUE, limit |-> l] :
               p \in { ApiChartOfAccounts, ApiValidTags, "/invalid" }, s \in BOOLEAN,
               l \in { NoLimit } \cup { Limit(t) : t \in GoodLimits } }
    \cup { [hasPath |-> p # "", path |-> p, show_inactive |-> FALSE,
            hide_no_program |-> FALSE, limit |-> Limit(t)] :
               p \in { ApiChartOfAccounts, ApiTrialBalances, "/invalid", "" },
               t \in BadLimits }

NoEvent == [hasPath |-> FALSE, path |-> "none", show_inactive |-> FALSE,
            hide_no_program |-> FALSE, limit |-> NoLimit]

-----------------------------------------------------------------------------
\* Chart pipeline (mip_api/chart.py, mip_api/util.py)

Min(a, b) == IF a < b THEN a ELSE b

Prefix(s, n) == SubSeq(s, 1, Min(n, Len(s)))

Contains(list, x) == \E i \in 1..Len(list) : list[i] = x

Digits == { "0", "1", "2", "3", "4", "5", "6", "7", "8", "9" }

Letters == { "A", "B", "C", "D", "E", "F", "G", "H", "I", "J", "K", "L", "M",
             "N", "O", "P", "Q", "R", "S", "T", "U", "V", "W", "X", "Y", "Z",
             "a", "b", "c", "d", "e", "f", "g", "h", "i", "j", "k", "l", "m",
             "n", "o", "p", "q", "r", "s", "t", "u", "v", "w", "x", "y", "z" }

\* characters the class [\d\w\s.:/=+\-@] of process_chart matches: \w also
\* matches the underscore and non-ASCII letters, \s also tab and newline
RegexKept == Digits \cup Letters \cup { "_", "e'" } \cup { " ", "\t", "\n" }
                 \cup { ".", ":", "/", "=", "+", "-", "@" }

\* variant: the name is taken as it is
Sanitize_Whole(name) == name

\* re.sub(regex, "", _name)
Sanitize(name) == SelectSeq(name, LAMBDA c : c \in RegexKept)

\* variant: the new item goes to the end
dict_prepend_Append(original, key, value) ==
    SelectSeq(original, LAMBDA e : e.code # key) \o
        << IF key \in Keys(original) THEN original[Lookup(original, key)]
           ELSE Entry(key, value) >>

\* variant: a key already present stays where it is
dict_prepend_KeepsPlace(original, key, value) ==
    IF key \in Keys(original) THEN original ELSE << Entry(key, value) >> \o original

\* util.dict_prepend: {key: value} updated with `original`
dict_prepend(original, key, value) ==
    IF key \in Keys(original)
    THEN << original[Lookup(original, key)] >>
             \o SelectSeq(original, LAMBDA e : e.code # key)
    ELSE << Entry(key, value) >> \o original

\* the value of one decimal digit
DigitVal(c) ==
    CASE c = "0" -> 0 [] c = "1" -> 1 [] c = "2" -> 2 [] c = "3" -> 3 [] c = "4" -> 4
      [] c = "5" -> 5 [] c = "6" -> 6 [] c = "7" -> 7 [] c = "8" -> 8 [] c = "9" -> 9

RECURSIVE DigitsVal(_)
DigitsVal(ds) ==
    IF Len(ds) = 0 THEN 0
    ELSE 10 * DigitsVal(SubSeq(ds, 1, Len(ds) - 1)) + DigitVal(ds[Len(ds)])

\* Python's int(text): an optional sign and at least one digit, else ValueError
ParseInt(text) ==
    LET signed == Len(text) > 0 /\ text[1] \in { "-", "+" }
        ds     == IF signed THEN Tail(text) ELSE text
        ok     == Len(ds) > 0 /\ \A i \in 1..Len(ds) : ds[i] \in Digits
    IN  [ok  |-> ok,
         val |-> IF ~ok THEN 0
                 ELSE IF signed /\ text[1] = "-" THEN 0 - DigitsVal(ds)
                 ELSE DigitsVal(ds)]

\* util._param_limit_int raises ValueError for a limit that is not an
\* integer or is negative
LimitRaises(lim) ==
    lim.present /\ (~ParseInt(lim.text).ok \/ ParseInt(lim.text).val < 0)

\* query-string parameters parsed by util.params_dict
Params(ev) ==
    [ hide_inactive   |-> ~ev.show_inactive,
      limit           |-> IF ev.limit.present THEN ParseInt(ev.limit.text).val ELSE 0,
      has_priority    |-> FALSE,
      priority_codes  |-> << >>,
      show_no_program |-> ~ev.hide_no_program,
      show_other      |-> FALSE ]

\* variant: five characters are enough whatever hide_inactive says
CodeLen_Five(hide_inactive) == 5

\* `code_len = 5`, `if params["hide_inactive"]: code_len = 6`
CodeLen(hide_inactive) == IF hide_inactive THEN 6 ELSE 5

\* variant: the code is kept whole
ShortCode_Whole(code) == code

\* `short = code[:6]`
ShortCode(code) == Prefix(code, 6)

\* variant: no code counts as found
Seen_Never(found_codes, short) == FALSE

\* `if short in found_codes:`
Seen(found_codes, short) == Contains(found_codes, short)

\* variant: no code is treated as a priority code
IsPriority_Never(params, short) == FALSE

\* `if priority_codes is not None:` `if short in priority_codes:`
IsPriority(params, short) ==
    params.has_priority /\ Contains(params.priority_codes, short)

RECURSIVE ProcessLoop(_, _, _, _, _)
\* the `for code, _name in chart_dict.items()` loop of process_chart
ProcessLoop(chart, i, found_codes, out_chart, params) ==
    IF i > Len(chart) THEN out_chart
    ELSE
      LET code     == chart[i].code
          code_len == CodeLen(params.hide_inactive)
          short    == ShortCode(code)
          name     == Sanitize(chart[i].name)
      IN  IF Len(code) < code_len \/ Seen(found_codes, short)
          THEN ProcessLoop(chart, i + 1, found_codes, out_chart, params)
          ELSE ProcessLoop(chart, i + 1, Append(found_codes, short),
                   IF IsPriority(params, short)
                   THEN dict_prepend(out_chart, short, name)
                   ELSE SetKey(out_chart, short, name),
                   params)

\* variant: the synthetic entries are put in before the raw entries are added
process_chart_InjectsFirst(chart_dict, omit_list, other, no_program, params) ==
    LET o1 == IF params.show_no_program
              THEN << Entry(no_program, <<"N","o"," ","P","r","o","g","r","a","m">>) >>
              ELSE << >>
        o2 == IF params.show_other
              THEN Append(o1, Entry(other, <<"O","t","h","e","r">>))
              ELSE o1
    IN  ProcessLoop(chart_dict, 1, omit_list, o2, params)

\* variant: the omit list is not put into found_codes
InitialFound_Empty(omit_list) == << >>

\* `found_codes = []`, `found_codes.extend(omit_list)`
InitialFound(omit_list) == omit_list

process_chart(chart_dict, omit_list, other, no_program, params) ==
    LET loop == ProcessLoop(chart_dict, 1, InitialFound(omit_list), << >>, params)
        o1   == IF params.show_other
                THEN dict_prepend(loop, other, <<"O","t","h","e","r">>)
                ELSE loop
    IN  IF params.show_no_program
        THEN dict_prepend(o1, no_program,
                          <<"N","o"," ","P","r","o","g","r","a","m">>)
        ELSE o1

\* variant: a limit of 0 truncates as well
limit_chart_Always(chart_dict, limit) == Prefix(chart_dict, limit)

limit_chart(chart_dict, limit) ==
    IF limit > 0 THEN Prefix(chart_dict, limit) ELSE chart_dict

\* variant: name and code are taken whole
list_tags_Untruncated(chart_dict) ==
    [ i \in 1..Len(chart_dict) |->
        [ name |-> chart_dict[i].name, sep |-> " / ", code |-> chart_dict[i].code ] ]

\* one tag per entry: name[:245], " / ", code[:6]
list_tags(chart_dict) ==
    [ i \in 1..Len(chart_dict) |->
        [ name |-> Prefix(chart_dict[i].name, 245), sep |-> " / ",
          code |-> Prefix(chart_dict[i].code, 6) ] ]

\* list_tags(params, chart_dict) of the legacy package mips_api: the tags of
\* the whole chart are built first, then cut to the `limit` parameter
mips_api_list_tags(limit, chart_dict) ==
    LET all_tags == [ i \in 1..Len(chart_dict) |->
                        [ name |-> Prefix(chart_dict[i].name, 245), sep |-> " / ",
                          code |-> Prefix(chart_dict[i].code, 6) ] ]
    IN  IF limit > 0 THEN SubSeq(all_tags, 1, Min(limit, Len(all_tags))) ELSE all_tags

-----------------------------------------------------------------------------
\* Raw charts and parameters of the direct process_chart calls

\* account codes of upstream: eight digits, two with a common six-digit
\* prefix, an inactive five-digit code, a four-digit one, a code of the omit
\* list and codes that begin with the "no program" and the "other" code
RawCodes == { <<1,2,3,4,5,6,0,0>>, <<1,2,3,4,5,6,0,1>>, <<2,3,4,5,6,7,0,0>>,
              <<5,4,3,2,1>>, <<1,2,3,4>>, <<9,9,9,9,0,0,0,0>>,
              <<0,0,0,0,0,0,0,0>>, <<0,0,0,0,0,1,0,0>> }

\* the title upstream gives each account
RawName(code) ==
    CASE code = <<1,2,3,4,5,6,0,0>> -> <<"P","a","r","t"," ","A">>
      [] code = <<1,2,3,4,5,6,0,1>> -> <<"P","a","r","t"," ","B">>
      [] code = <<2,3,4,5,6,7,0,0>> -> <<"(","O","p","s","!",")">>
      [] code = <<5,4,3,2,1>>       -> <<"O","l","d">>
      [] code = <<1,2,3,4>>         -> <<"T","o","p">>
      [] code = <<9,9,9,9,0,0,0,0>> -> <<"U","n","f","u","n","d","e","d">>
      [] code = <<0,0,0,0,0,0,0,0>> -> <<"N","o","n","e">>
      [] OTHER                      -> <<"M","_","e'","\t","#">>

\* a dict has each key once
RawCharts ==
    UNION { { [ i \in 1..n |-> Entry(codes[i], RawName(codes[i])) ] :
                codes \in { c \in [1..n -> RawCodes] :
                              \A i, j \in 1..n : i # j => c[i] # c[j] } } :
            n \in 0..MaxChart }

\* values of the priority_codes parameter: absent, empty, one six-digit
\* code, one five-digit code, a code of the omit list, two codes, a code
\* together with the "no program" code
PriorityChoices ==
    { [has |-> FALSE, codes |-> << >>],
      [has |-> TRUE,  codes |-> << >>],
      [has |-> TRUE,  codes |-> << <<1,2,3,4,5,6>> >>],
      [has |-> TRUE,  codes |-> << <<5,4,3,2,1>> >>],
      [has |-> TRUE,  codes |-> << <<9,9,9,9,0,0>> >>],
      [has |-> TRUE,  codes |-> << <<5,4,3,2,1>>, <<2,3,4,5,6,7>> >>],
      [has |-> TRUE,  codes |-> << <<2,3,4,5,6,7>>, <<0,0,0,0,0,0>> >>] }

\* the params dict of util.params_dict, without a limit
Queries ==
    { [ hide_inactive   |-> h,
        limit           |-> 0,
        has_priority    |-> pr.has,
        priority_codes  |-> pr.codes,
        show_no_program |-> n,
        show_other      |-> o ] :
      h \in BOOLEAN, n \in BOOLEAN, o \in BOOLEAN, pr \in PriorityChoices }

-----------------------------------------------------------------------------
\* S3 objects, results and histories

NoObject == [present |-> FALSE, json |-> None]

\* the object whose body is json.dumps(v)
Obj(v) == [present |-> TRUE, json |-> v]

NoResult == [raised |-> FALSE, val |-> None]

Resp(code, body) == [statusCode |-> code, body |-> body]

NoResponse == Resp(0, None)

ErrorBody == [kind |-> "error", items |-> << >>]

NoCycle == [login |-> "none", logouts |-> 0, logout_raised |-> FALSE, pre |-> None]

NoCacheCall == [reads |-> 0, writes |-> 0, written |-> None,
                read_failed |-> FALSE, write_failed |-> FALSE, before |-> NoObject]

\* no direct process_chart call is under way
NoQuery == [hide_inactive |-> TRUE, limit |-> 0, has_priority |-> FALSE,
            priority_codes |-> << >>, show_no_program |-> TRUE, show_other |-> FALSE]

Init ==
    /\ pc = "idle"
    /\ entry = "none"
    /\ fn = "none"
    /\ event = NoEvent
    /\ ssm_secrets = "none"
    /\ access_token = NoToken
    /\ data = None
    /\ period = "none"
    /\ attempt = 1
    /\ trace = << >>
    /\ upstream_data = None
    /\ cache_path = "none"
    /\ cache_data = None
    /\ result = NoResult
    /\ response = NoResponse
    /\ store \in { [p \in Paths |-> NoObject], [p \in Paths |-> Obj(EmptyDict)] }
    /\ phase = "none"
    /\ gl_chart = None
    /\ cycle = NoCycle
    /\ cc = NoCacheCall
    /\ hist = [lastUp |-> [p \in Paths |-> None],
               synced |-> [p \in Paths |-> FALSE],
               last   |-> None]
    /\ raw_chart = None
    /\ query = NoQuery
    /\ processed = None
    /\ reprocessed = None
    /\ limited = None
    /\ tags = None
    /\ logins = << >>
    /\ logouts = << >>
    /\ mips_dict = EmptyDict
    /\ app_secrets = "none"
    /\ s3cache = [max_age_days |-> 3, now |-> 0,
                  objects |-> [k \in { "/a", "/b" } |-> NoObject],
                  put |-> [k \in { "/a", "/b" } |-> None]]

Count(seq, x) == Cardinality({ i \in 1..Len(seq) : seq[i] = x })

-----------------------------------------------------------------------------
\* Upstream client (mip_api/upstream.py)

hvars == << entry, event, phase, ssm_secrets >>

uvars == << fn, access_token, data, period, attempt, cycle >>

cvars == << upstream_data, cache_path, cache_data, cc >>

ovars == << result, response >>

pvars == << raw_chart, query, processed, reprocessed, limited, tags,
           mips_dict, app_secrets, s3cache >>

\* outcomes of one HTTP attempt of a backoff-decorated call: a connection
\* error or timeout (RequestException / RequestError), an HTTP error status
\* (turned into HTTPError by raise_for_status) or any other exception
Outcomes == { "ok", "request_exc", "http_error", "other_exc" }

\* requests.HTTPError is a subclass of requests.RequestException
RequestExceptions == { "request_exc", "http_error" }

\* variant: every exception is retried while the budget lasts
Retries_Always(o, budget_left) == budget_left /\ attempt < MaxTries

\* backoff.on_exception: a listed exception is retried while the time
\* budget lasts (`budget_left`), anything else is raised at once
Retries(o, budget_left) == o \in RequestExceptions /\ budget_left /\ attempt < MaxTries

\* variant: the exception escapes from lambda_handler as it does from a
\* direct call
RaiseOut_Escapes ==
    /\ pc' = "done"
    /\ result' = [raised |-> TRUE, val |-> None]
    /\ response' = response

\* an exception leaves the entry point: lambda_handler turns it into a 500
\* response, a direct call raises to its caller
RaiseOut ==
    /\ pc' = "done"
    /\ IF entry = "lambda_handler"
       THEN response' = Resp(500, ErrorBody) /\ result' = result
       ELSE result' = [raised |-> TRUE, val |-> None] /\ response' = response

\* max_time of the backoff decorators, in seconds
login_max_time == 11

segment_max_time == 11

accounts_max_time == 11

logout_max_time == 28

\* "CloudFront will only wait a maximum of 60 seconds for a response from
\* this lambda"
cloudfront_max_wait == 60

\* the retry budget of each upstream call of get_chart
max_time(call) ==
    CASE call = "login" -> login_max_time
      [] call = "segment" -> segment_max_time
      [] call = "accounts" -> accounts_max_time
      [] call = "logout" -> logout_max_time
      [] OTHER -> 0

\* first statements of get_chart / trial_balances
StartUpstream(f) ==
    /\ fn' = f
    /\ access_token' = NoToken
    /\ data' = EmptyDict
    /\ period' = "none"
    /\ attempt' = 1
    /\ cycle' = NoCycle
    /\ pc' = IF f = "get_chart" THEN "login" ELSE "period"

\* variant: the finally block never logs out
GetChartFinally_Never(tok) == FALSE

\* variant: the finally block logs out whether or not a token was obtained
GetChartFinally_Always(tok) == TRUE

\* `finally:` of get_chart: logout only with a token
GetChartFinally(tok) == tok # NoToken

\* `finally:` of trial_balances: logout unconditionally
TrialBalancesFinally(tok) == TRUE

CallsLogout(f, tok) ==
    IF f = "get_chart" THEN GetChartFinally(tok) ELSE TrialBalancesFinally(tok)

\* leaving the try block (normally or through `except Exception`)
AfterTry(f, tok) == IF CallsLogout(f, tok) THEN "logout" ELSE "upstream_return"

CallGetChart(seg) ==
    /\ pc = "idle"
    /\ entry' = "get_chart"
    /\ phase' = seg
    /\ trace' = << >>
    /\ StartUpstream("get_chart")
    /\ UNCHANGED << event, ssm_secrets, cvars, ovars, store, gl_chart, hist >>
    /\ UNCHANGED pvars
    /\ logins' = << >>
    /\ logouts' = << >>

CallTrialBalances ==
    /\ pc = "idle"
    /\ entry' = "trial_balances"
    /\ phase' = "bal"
    /\ trace' = << >>
    /\ StartUpstream("trial_balances")
    /\ UNCHANGED << event, ssm_secrets, cvars, ovars, store, gl_chart, hist >>
    /\ UNCHANGED pvars
    /\ logins' = << >>
    /\ logouts' = << >>

\* util.target_period(when): the reporting period, or an error on a date
\* string that does not parse
TargetPeriod(ok, p) ==
    /\ pc = "period"
    /\ IF ok
       THEN /\ period' = p
            /\ pc' = "login"
            /\ UNCHANGED ovars
       ELSE /\ RaiseOut
            /\ UNCHANGED period
    /\ UNCHANGED << hvars, fn, access_token, data, attempt, cycle, cvars,
                    trace, store, gl_chart, hist >>
    /\ UNCHANGED pvars
    /\ logins' = << >>
    /\ logouts' = << >>

\* _login: POST credentials, raise_for_status, read AccessToken
Login(o, tok, budget_left) ==
    /\ pc = "login"
    /\ trace' = IF attempt = 1 THEN Append(trace, "login") ELSE trace
    /\ IF o = "ok"
       THEN /\ access_token' = tok
            /\ cycle' = [cycle EXCEPT !.login = IF tok = NoToken THEN "null" ELSE "token"]
            /\ attempt' = 1
            /\ pc' = IF fn = "get_chart" THEN "segment" ELSE "balance"
       ELSE IF Retries(o, budget_left)
       THEN /\ attempt' = attempt + 1
            /\ UNCHANGED << access_token, cycle, pc >>
       ELSE /\ cycle' = [cycle EXCEPT !.login = "raised", !.pre = data]
            /\ attempt' = 1
            /\ pc' = AfterTry(fn, access_token)
            /\ UNCHANGED access_token
    /\ UNCHANGED << hvars, fn, data, period, cvars, ovars, store, gl_chart, hist >>
    /\ UNCHANGED pvars
    /\ logins' = Append(logins, o)
    /\ logouts' = << >>

\* _get_segment_id: GET the segments, pick the id of `segment_name`;
\* ValueError when the segment is missing
GetSegmentId(o, budget_left) ==
    /\ pc = "segment"
    /\ trace' = IF attempt = 1 THEN Append(trace, "segment") ELSE trace
    /\ IF o = "ok"
       THEN /\ attempt' = 1
            /\ pc' = "accounts"
            /\ UNCHANGED cycle
       ELSE IF Retries(o, budget_left)
       THEN /\ attempt' = attempt + 1
            /\ UNCHANGED << cycle, pc >>
       ELSE /\ cycle' = [cycle EXCEPT !.pre = data]
            /\ attempt' = 1
            /\ pc' = AfterTry(fn, access_token)
    /\ UNCHANGED << hvars, fn, access_token, data, period, cvars, ovars,
                    store, gl_chart, hist >>
    /\ UNCHANGED pvars
    /\ logins' = << >>
    /\ logouts' = << >>

\* charts upstream may answer for the segment asked for
ChartsOf(seg) == (IF seg = "gl" THEN GLCharts ELSE ProgramCharts) \cup { EmptyDict }

\* _get_chart_segment: GET the accounts, keep those of the segment
GetChartSegment(o, chart, budget_left) ==
    /\ pc = "accounts"
    /\ trace' = IF attempt = 1 THEN Append(trace, "accounts") ELSE trace
    /\ IF o = "ok"
       THEN /\ data' = chart
            /\ cycle' = [cycle EXCEPT !.pre = chart]
            /\ attempt' = 1
            /\ pc' = AfterTry(fn, access_token)
       ELSE IF Retries(o, budget_left)
       THEN /\ attempt' = attempt + 1
            /\ UNCHANGED << data, cycle, pc >>
       ELSE /\ cycle' = [cycle EXCEPT !.pre = data]
            /\ attempt' = 1
            /\ pc' = AfterTry(fn, access_token)
            /\ UNCHANGED data
    /\ UNCHANGED << hvars, fn, access_token, period, cvars, ovars, store,
                    gl_chart, hist >>
    /\ UNCHANGED pvars
    /\ logins' = << >>
    /\ logouts' = << >>

\* _get_balance: POST GetAccountBalances, raise_for_status, return the JSON
GetBalance(o, bal, budget_left) ==
    /\ pc = "balance"
    /\ trace' = IF attempt = 1 THEN Append(trace, "balance") ELSE trace
    /\ IF o = "ok"
       THEN /\ data' = bal
            /\ cycle' = [cycle EXCEPT !.pre = bal]
            /\ attempt' = 1
            /\ pc' = AfterTry(fn, access_token)
       ELSE IF Retries(o, budget_left)
       THEN /\ attempt' = attempt + 1
            /\ UNCHANGED << data, cycle, pc >>
       ELSE /\ cycle' = [cycle EXCEPT !.pre = data]
            /\ attempt' = 1
            /\ pc' = AfterTry(fn, access_token)
            /\ UNCHANGED data
    /\ UNCHANGED << hvars, fn, access_token, period, cvars, ovars, store,
                    gl_chart, hist >>
    /\ UNCHANGED pvars
    /\ logins' = << >>
    /\ logouts' = << >>

\* variant: the exception of _logout is not caught
LogoutFailure_Propagates(d) == [raised |-> TRUE, val |-> d]

\* what get_chart / trial_balances do with an exception of _logout:
\* `except Exception` logs it, nothing is re-raised and `data` is kept
LogoutFailure(d) == [raised |-> FALSE, val |-> d]

\* variant: _logout checks the status as _login does
LogoutCompletes_RaiseForStatus(o) == o = "ok"

\* _logout ends with requests.post: without raise_for_status a response
\* with an HTTP error status returns like any other response
LogoutCompletes(o) == o \in { "ok", "http_error" }

\* _logout inside the finally block
Logout(o, budget_left) ==
    /\ pc = "logout"
    /\ trace' = IF attempt = 1 THEN Append(trace, "logout") ELSE trace
    /\ LET n == IF attempt = 1 THEN cycle.logouts + 1 ELSE cycle.logouts
       IN  IF LogoutCompletes(o)
           THEN /\ cycle' = [cycle EXCEPT !.logouts = n]
                /\ attempt' = 1
                /\ pc' = "upstream_return"
                /\ UNCHANGED << data, ovars >>
           ELSE IF Retries(o, budget_left)
           THEN /\ cycle' = [cycle EXCEPT !.logouts = n]
                /\ attempt' = attempt + 1
                /\ UNCHANGED << data, pc, ovars >>
           ELSE /\ cycle' = [cycle EXCEPT !.logouts = n, !.logout_raised = TRUE]
                /\ attempt' = 1
                /\ data' = LogoutFailure(data).val
                /\ IF LogoutFailure(data).raised
                   THEN RaiseOut
                   ELSE pc' = "upstream_return" /\ UNCHANGED ovars
    /\ UNCHANGED << hvars, fn, access_token, period, cvars, store, gl_chart, hist >>
    /\ UNCHANGED pvars
    /\ logins' = << >>
    /\ logouts' = Append(logouts, o)

\* value returned by the upstream function; trial_balances injects the
\* period dates into bal_dict
UpstreamResult(f, d, per) ==
    IF f = "get_chart" THEN d
    ELSE Dict(SetKey(SetKey(d.items, "period_from", per), "period_to", per))

\* S3 path lambda_handler hands to get_program_chart / get_gl_chart / get_balances
PathOf(ph, hide_inactive) ==
    IF ph = "program" THEN PathProgram(hide_inactive)
    ELSE IF ph = "gl" THEN PathGL(hide_inactive)
    ELSE PathBalances(hide_inactive)

-----------------------------------------------------------------------------
\* Cache reconciler (mip_api/s3.py)

\* first statements of s3.cache(upstream_data, bucket, path)
StartCache(u, path) ==
    /\ upstream_data' = u
    /\ cache_path' = path
    /\ cache_data' = None
    /\ cc' = [NoCacheCall EXCEPT !.before = store[path]]
    /\ hist' = IF Truthy(u)
               THEN [hist EXCEPT !.lastUp[path] = u, !.synced[path] = FALSE,
                                 !.last = u]
               ELSE hist
    /\ pc' = "read"

\* return statement of get_chart / trial_balances and, under a caller,
\* the call of s3.cache that follows it
UpstreamReturn ==
    /\ pc = "upstream_return"
    /\ LET ret == UpstreamResult(fn, data, period)
       IN  /\ data' = ret
           /\ IF entry = "lambda_handler"
              THEN /\ StartCache(ret, PathOf(phase, ~event.show_inactive))
                   /\ UNCHANGED ovars
              ELSE /\ result' = [raised |-> FALSE, val |-> ret]
                   /\ pc' = "done"
                   /\ UNCHANGED << response, cvars, hist >>
    /\ UNCHANGED << hvars, fn, access_token, period, attempt, cycle, trace,
                    store, gl_chart >>
    /\ UNCHANGED pvars
    /\ logins' = << >>
    /\ logouts' = << >>

CallCache(u, path) ==
    /\ pc = "idle"
    /\ entry' = "cache"
    /\ phase' = "program"
    /\ trace' = << >>
    /\ StartCache(u, path)
    /\ UNCHANGED << event, ssm_secrets, uvars, ovars, store, gl_chart >>
    /\ UNCHANGED pvars
    /\ logins' = << >>
    /\ logouts' = << >>

\* variant: a failed read still yields the stored value
S3Read_IgnoresFailure(obj, ok) == obj.json

\* _read: get_object raises when the object is missing or S3 fails, json.loads
\* raises on a broken body; cache() then keeps cache_data = None
S3Read(obj, ok) == IF ok /\ obj.present THEN obj.json ELSE None

\* variant: every non-empty upstream value is written
NeedsWrite_Always(u, c) == Truthy(u)

\* variant: any difference is written, also an empty upstream value
NeedsWrite_Differs(u, c) == ~PyEq(u, c)

\* variant: written only while the cache holds nothing
NeedsWrite_OnlyWhenMissing(u, c) == Truthy(u) /\ c.kind = "none"

\* `if upstream_data:` ... `if upstream_data == cache_data:` ... `else:` _write
NeedsWrite(u, c) == Truthy(u) /\ ~PyEq(u, c)

CacheRead(ok) ==
    /\ pc = "read"
    /\ trace' = Append(trace, "read")
    /\ LET c == S3Read(store[cache_path], ok)
       IN  /\ cache_data' = c
           /\ cc' = [cc EXCEPT !.reads = @ + 1,
                               !.read_failed = ~ok]
           /\ hist' = IF Truthy(upstream_data) /\ ~NeedsWrite(upstream_data, c)
                      THEN [hist EXCEPT !.synced[cache_path] = TRUE]
                      ELSE hist
           /\ pc' = IF NeedsWrite(upstream_data, c) THEN "write" ELSE "cache_return"
    /\ UNCHANGED << hvars, uvars, upstream_data, cache_path, ovars, store, gl_chart >>
    /\ UNCHANGED pvars
    /\ logins' = << >>
    /\ logouts' = << >>

\* variant: the cached value is written back
WriteData_Cached(u, c) == c

\* the data handed to _write
WriteData(u, c) == u

\* _write: put_object of json.dumps(data); a failure is logged by cache()
CacheWrite(ok) ==
    /\ pc = "write"
    /\ trace' = Append(trace, "write")
    /\ LET w == WriteData(upstream_data, cache_data)
       IN  /\ store' = IF ok THEN [store EXCEPT ![cache_path] = Obj(w)] ELSE store
           /\ cc' = [cc EXCEPT !.writes = @ + 1, !.written = w, !.write_failed = ~ok]
           /\ hist' = IF ok
                      THEN [hist EXCEPT !.synced[cache_path] = TRUE]
                      ELSE hist
    /\ pc' = "cache_return"
    /\ UNCHANGED << hvars, uvars, upstream_data, cache_path, cache_data, ovars, gl_chart >>
    /\ UNCHANGED pvars
    /\ logins' = << >>
    /\ logouts' = << >>

\* variant: no fallback on the cached value
OutData_UpstreamOnly(u, c) == u

\* out_data of cache()
OutData(u, c) == IF Truthy(u) THEN u ELSE c

\* variant: `if out_data is None:`
NoValidResponse_NoneOnly(out) == out.kind = "none"

\* `if not out_data:` guarding `raise ValueError("No valid response found")`
NoValidResponse(out) == ~Truthy(out)

\* variant: every cached dataset is followed by a balances fetch
FetchesBalancesNext_Always(ph) == TRUE

\* lambda_handler calls get_balances after get_gl_chart only; the chart
\* routes and get_balances itself go on to the response
FetchesBalancesNext(ph) == ph = "gl"

\* the end of cache(): raise or `return out_data`, and the caller's next
\* statement
CacheReturn ==
    /\ pc = "cache_return"
    /\ LET out == OutData(upstream_data, cache_data)
       IN  IF NoValidResponse(out)
           THEN /\ RaiseOut
                /\ UNCHANGED << phase, uvars, gl_chart >>
           ELSE IF entry = "cache"
           THEN /\ result' = [raised |-> FALSE, val |-> out]
                /\ pc' = "done"
                /\ UNCHANGED << response, phase, uvars, gl_chart >>
           ELSE IF FetchesBalancesNext(phase)
           THEN \* lambda_handler: gl_chart = get_gl_chart(...); get_balances(...)
                /\ gl_chart' = out
                /\ phase' = "bal"
                /\ StartUpstream("trial_balances")
                /\ UNCHANGED ovars
           ELSE /\ data' = out
                /\ pc' = "respond"
                /\ UNCHANGED << phase, fn, access_token, period, attempt, cycle,
                                ovars, gl_chart >>
    /\ UNCHANGED << entry, event, ssm_secrets, cvars, trace, store, hist >>
    /\ UNCHANGED pvars
    /\ logins' = << >>
    /\ logouts' = << >>

-----------------------------------------------------------------------------
\* Lambda entry point (mip_api/__init__.py)

\* lambda_handler up to the secrets lookup: environment variables
\* (util.get_os_var raises when one is unset) and util.params_dict
CallLambdaHandler(ev, env_ok) ==
    /\ pc = "idle"
    /\ entry' = "lambda_handler"
    /\ event' = ev
    /\ ssm_secrets' = "none"
    /\ trace' = << >>
    /\ IF env_ok /\ ~LimitRaises(ev.limit)
       THEN pc' = "secrets" /\ UNCHANGED response
       ELSE pc' = "done" /\ response' = Resp(500, ErrorBody)
    /\ UNCHANGED << phase, uvars, cvars, result, store, gl_chart, hist >>
    /\ UNCHANGED pvars
    /\ logins' = << >>
    /\ logouts' = << >>

\* ssm.get_secrets, then the dispatch on event["path"]
GetSecrets(ok) ==
    /\ pc = "secrets"
    /\ trace' = Append(trace, "secrets")
    /\ ssm_secrets' = IF ok THEN "loaded" ELSE "none"
    /\ IF ~ok
       THEN /\ pc' = "done"
            /\ response' = Resp(500, ErrorBody)
            /\ UNCHANGED << phase, uvars >>
       ELSE IF ~event.hasPath
       THEN /\ pc' = "done"
            /\ response' = Resp(400, ErrorBody)
            /\ UNCHANGED << phase, uvars >>
       ELSE /\ phase' = IF event.path = ApiTrialBalances THEN "gl" ELSE "program"
            /\ StartUpstream("get_chart")
            /\ UNCHANGED response
    /\ UNCHANGED << entry, event, cvars, result, store, gl_chart, hist >>
    /\ UNCHANGED pvars
    /\ logins' = << >>
    /\ logouts' = << >>

\* balances.format_csv: process_balance raises unless the balance holds
\* executionResult == "SUCCESS"
CsvOk(bal) ==
    /\ "executionResult" \in Keys(bal.items)
    /\ bal.items[Lookup(bal.items, "executionResult")].name = "SUCCESS"

\* the tail of lambda_handler once the chart or the balances are at hand
Respond ==
    /\ pc = "respond"
    /\ pc' = "done"
    /\ IF phase = "bal"
       THEN response' = IF CsvOk(data)
                        THEN Resp(200, [kind |-> "csv", items |-> data.items])
                        ELSE Resp(500, ErrorBody)
       ELSE LET params        == Params(event)
                _program_chart == process_chart(data.items, CodesToOmit, OtherCode,
                                                NoProgramCode, params)
                program_chart  == limit_chart(_program_chart, params.limit)
            IN  response' =
                  IF event.path = ApiChartOfAccounts
                  THEN Resp(200, Dict(program_chart))
                  ELSE IF event.path = ApiValidTags
                  THEN Resp(200, [kind |-> "list", items |-> list_tags(program_chart)])
                  ELSE Resp(404, ErrorBody)
    /\ UNCHANGED << hvars, uvars, cvars, result, trace, store, gl_chart, hist >>
    /\ UNCHANGED pvars
    /\ logins' = << >>
    /\ logouts' = << >>

\* the call is over; its locals are dropped
Finish ==
    /\ pc = "done"
    /\ pc' = "idle"
    /\ entry' = "none"
    /\ fn' = "none"
    /\ event' = NoEvent
    /\ ssm_secrets' = "none"
    /\ access_token' = NoToken
    /\ data' = None
    /\ period' = "none"
    /\ attempt' = 1
    /\ trace' = << >>
    /\ upstream_data' = None
    /\ cache_path' = "none"
    /\ cache_data' = None
    /\ result' = NoResult
    /\ response' = NoResponse
    /\ phase' = "none"
    /\ gl_chart' = None
    /\ cycle' = NoCycle
    /\ cc' = NoCacheCall
    /\ UNCHANGED << store, hist >>
    /\ UNCHANGED pvars
    /\ logins' = << >>
    /\ logouts' = << >>

-----------------------------------------------------------------------------
\* Direct calls of chart.process_chart

InitChart ==
    /\ pc = "chart"
    /\ entry = "process_chart"
    /\ fn = "none"
    /\ event = NoEvent
    /\ ssm_secrets = "none"
    /\ access_token = NoToken
    /\ data = None
    /\ period = "none"
    /\ attempt = 1
    /\ trace = << >>
    /\ upstream_data = None
    /\ cache_path = "none"
    /\ cache_data = None
    /\ result = NoResult
    /\ response = NoResponse
    /\ store = [p \in Paths |-> NoObject]
    /\ phase = "none"
    /\ gl_chart = None
    /\ cycle = NoCycle
    /\ cc = NoCacheCall
    /\ hist = [lastUp |-> [p \in Paths |-> None],
               synced |-> [p \in Paths |-> FALSE],
               last   |-> None]
    /\ raw_chart \in { Dict(c) : c \in RawCharts }
    /\ query \in Queries
    /\ processed = None
    /\ reprocessed = None
    /\ limited = None
    /\ tags = None
    /\ logins = << >>
    /\ logouts = << >>
    /\ mips_dict = EmptyDict
    /\ app_secrets = "none"
    /\ s3cache = [max_age_days |-> 3, now |-> 0,
                  objects |-> [k \in { "/a", "/b" } |-> NoObject],
                  put |-> [k \in { "/a", "/b" } |-> None]]

\* process_chart(raw_chart, omit_list, other, no_program, params)
CallProcessChart ==
    /\ pc = "chart"
    /\ processed' = Dict(process_chart(raw_chart.items, CodesToOmit, OtherCode,
                                       NoProgramCode, query))
    /\ pc' = "processed"
    /\ UNCHANGED << hvars, uvars, cvars, ovars, trace, store, gl_chart, hist,
                    raw_chart, query, reprocessed, limited, tags, logins, logouts,
                    mips_dict, app_secrets, s3cache >>

\* process_chart applied to its own output, same arguments otherwise
CallProcessChartAgain ==
    /\ pc = "processed"
    /\ reprocessed' = Dict(process_chart(processed.items, CodesToOmit, OtherCode,
                                         NoProgramCode, query))
    /\ pc' = "reprocessed"
    /\ UNCHANGED << hvars, uvars, cvars, ovars, trace, store, gl_chart, hist,
                    raw_chart, query, processed, limited, tags, logins, logouts,
                    mips_dict, app_secrets, s3cache >>

-----------------------------------------------------------------------------
\* Direct calls of chart.limit_chart and chart.list_tags

\* a name longer than a tag value may be
LongName == [ i \in 1..300 |-> IF i = 1 THEN "L" ELSE "X" ]

\* entries of the charts handed to limit_chart: codes of 6, 5 and 8
\* characters, a long name, a synthetic entry
TagEntries ==
    { Entry(<<1,2,3,4,5,6>>, <<"P","a","r","t"," ","A">>),
      Entry(<<5,4,3,2,1>>, <<"O","l","d">>),
      Entry(<<4,5,6,7,8,9,0,0>>, LongName),
      Entry(NoProgramCode, <<"N","o"," ","P","r","o","g","r","a","m">>) }

TagCharts ==
    UNION { { c \in [1..n -> TagEntries] : \A i, j \in 1..n : i # j => c[i] # c[j] } :
            n \in 0..MaxChart }

\* values of the `limit` argument: 0, below, at and above the chart length
Limits == 0..(MaxChart + 1)

InitTags ==
    /\ pc = "processed"
    /\ entry = "limit_chart"
    /\ fn = "none"
    /\ event = NoEvent
    /\ ssm_secrets = "none"
    /\ access_token = NoToken
    /\ data = None
    /\ period = "none"
    /\ attempt = 1
    /\ trace = << >>
    /\ upstream_data = None
    /\ cache_path = "none"
    /\ cache_data = None
    /\ result = NoResult
    /\ response = NoResponse
    /\ store = [p \in Paths |-> NoObject]
    /\ phase = "none"
    /\ gl_chart = None
    /\ cycle = NoCycle
    /\ cc = NoCacheCall
    /\ hist = [lastUp |-> [p \in Paths |-> None],
               synced |-> [p \in Paths |-> FALSE],
               last   |-> None]
    /\ raw_chart = None
    /\ query \in { [NoQuery EXCEPT !.limit = n] : n \in Limits }
    /\ processed \in { Dict(c) : c \in TagCharts }
    /\ reprocessed = None
    /\ limited = None
    /\ tags = None
    /\ logins = << >>
    /\ logouts = << >>
    /\ mips_dict = EmptyDict
    /\ app_secrets = "none"
    /\ s3cache = [max_age_days |-> 3, now |-> 0,
                  objects |-> [k \in { "/a", "/b" } |-> NoObject],
                  put |-> [k \in { "/a", "/b" } |-> None]]

\* limit_chart(chart_dict, limit): chart_dict itself is not assigned to
CallLimitChart ==
    /\ pc = "processed"
    /\ limited' = Dict(limit_chart(processed.items, query.limit))
    /\ pc' = "limited"
    /\ UNCHANGED << hvars, uvars, cvars, ovars, trace, store, gl_chart, hist,
                    raw_chart, query, processed, reprocessed, tags, logins, logouts,
                    mips_dict, app_secrets, s3cache >>

\* list_tags(chart_dict) on the limited chart
CallListTags ==
    /\ pc = "limited"
    /\ tags' = [kind |-> "list", items |-> list_tags(limited.items)]
    /\ pc' = "tags"
    /\ UNCHANGED << hvars, uvars, cvars, ovars, trace, store, gl_chart, hist,
                    raw_chart, query, processed, reprocessed, limited, logins, logouts,
                    mips_dict, app_secrets, s3cache >>

-----------------------------------------------------------------------------
\* The App class (mips_api/mips.py)

\* App._main_program_codes
MainProgramCodes ==
    { <<1,0,1,3,0,0>>, <<1,0,1,4,0,0>>, <<1,0,1,6,0,0>>, <<1,1,2,5,0,1>>,
      <<1,1,9,4,0,0>>, <<1,2,0,1,0,0>>, <<1,2,1,7,0,0>>, <<1,2,2,0,0,0>>,
      <<1,2,2,1,0,0>>, <<1,2,2,3,0,0>>, <<3,1,2,0,0,0>>, <<3,1,4,9,0,0>>,
      <<4,0,1,9,0,0>>, <<5,0,6,8,0,0>>, <<6,1,3,5,0,0>>, <<9,9,0,1,0,0>>,
      <<9,9,0,3,0,0>>, <<9,9,0,4,0,0>> }

\* App._extra_program_codes
ExtraProgramCodes ==
    << Entry(<<0,0,0,0,0,0>>, <<"N","o"," ","P","r","o","g","r","a","m">>),
       Entry(<<0,0,0,0,0,1>>, <<"O","t","h","e","r">>) >>

\* App._omit_program_codes
OmitProgramCodes ==
    { <<9,9,9,9,0,0>>, <<9,9,9,8,0,0>>, <<9,9,9,7,0,0>>, <<9,9,0,5,0,0>> }

\* App._legacy_program_codes
LegacyProgramCodes == { <<3,0,1,4,4>> }

\* routes of the App: valid_routes['apiAllCostCenters'], ['apiProgramCodes']
\* and ['apiProgramCodesAll']
ApiAllCostCenters == "/all"

ApiProgramCodes == "/programs"

ApiProgramCodesAll == "/programs-all"

Lookups == { ApiAllCostCenters, ApiProgramCodes, ApiProgramCodesAll, "/invalid" }

\* a chart with a main program code, an omitted code and a legacy code
ChartD == << Entry(<<9,9,0,3,0,0,0,0>>, <<"P","l","a","t","f","o","r","m">>),
             Entry(<<9,9,9,9,0,0,0,0>>, <<"U","n","f","u","n","d","e","d">>),
             Entry(<<3,0,1,4,4>>, <<"L","e","g","a","c","y">>) >>

\* what the chart-of-accounts endpoint may answer
AppCharts == { EmptyDict, Dict(ChartA), Dict(ChartD) }

\* f"{name} / {short}"
Title(name, short) == [name |-> name, sep |-> " / ", code |-> short]

ExtraTitles ==
    [ i \in 1..Len(ExtraProgramCodes) |->
        Title(ExtraProgramCodes[i].name, ExtraProgramCodes[i].code) ]

\* the loop of _service_catalog_json over mips_dict
RECURSIVE MainTitles(_, _, _)
MainTitles(items, i, acc) ==
    IF i > Len(items) THEN acc
    ELSE LET short == Prefix(items[i].code, 6)
             title == Title(items[i].name, short)
         IN  MainTitles(items, i + 1,
                        IF short \in MainProgramCodes /\ ~Contains(acc, title)
                        THEN Append(acc, title) ELSE acc)

\* the loop of _service_catalog_all_json over mips_dict
RECURSIVE AllTitles(_, _, _)
AllTitles(items, i, acc) ==
    IF i > Len(items) THEN acc
    ELSE LET code  == items[i].code
             short == Prefix(code, 6)
             title == Title(items[i].name, short)
         IN  AllTitles(items, i + 1,
                       IF /\ (code \in LegacyProgramCodes \/ Len(code) > 5)
                          /\ short \notin OmitProgramCodes
                          /\ ~Contains(acc, title)
                       THEN Append(acc, title) ELSE acc)

\* App._get_mips_data: the body for the route, None for any other lookup
GetMipsData(d, lookup) ==
    IF lookup = ApiAllCostCenters THEN d
    ELSE IF lookup = ApiProgramCodes
    THEN [kind |-> "list", items |-> MainTitles(d.items, 1, << >>) \o ExtraTitles]
    ELSE IF lookup = ApiProgramCodesAll
    THEN [kind |-> "list", items |-> AllTitles(d.items, 1, ExtraTitles)]
    ELSE None

\* `for a in accounts: self.mips_dict[code] = title`
RECURSIVE SetAll(_, _, _)
SetAll(items, accounts, i) ==
    IF i > Len(accounts) THEN items
    ELSE SetAll(SetKey(items, accounts[i].code, accounts[i].name), accounts, i + 1)

\* variables the App's methods leave alone
nonapp == << fn, ssm_secrets, period, attempt, upstream_data, cache_path,
             cache_data, response, store, phase, gl_chart, cycle, cc, hist,
             raw_chart, query, processed, reprocessed, limited, tags, logins, logouts,
             s3cache >>

\* App.collect_secrets: SSM is asked only while _ssm_secrets is None; the
\* attribute is set to {} before the call, so a failed call leaves it empty
CollectSecrets(ok) ==
    /\ pc = "idle"
    /\ entry' = "collect_secrets"
    /\ pc' = "done"
    /\ trace' = IF app_secrets = "none" THEN << "secrets" >> ELSE << >>
    /\ app_secrets' = IF app_secrets # "none" THEN app_secrets
                      ELSE IF ok THEN "loaded" ELSE "empty"
    /\ result' = [raised |-> app_secrets' # "loaded", val |-> None]
    /\ UNCHANGED << event, access_token, mips_dict, data, nonapp >>

\* variant: upstream is queried on every call
QueriesMips_Always(d) == TRUE

\* get_mips_data: `if not self.mips_dict: self._collect_mips_data()`
QueriesMips(d) == ~Truthy(d)

\* App.get_mips_data(lookup) up to the first request
CallGetMipsData(lookup) ==
    /\ pc = "idle"
    /\ entry' = "get_mips_data"
    /\ event' = [NoEvent EXCEPT !.hasPath = TRUE, !.path = lookup]
    /\ trace' = << >>
    /\ access_token' = NoToken
    /\ pc' = IF QueriesMips(mips_dict) THEN "app_login" ELSE "app_return"
    /\ UNCHANGED << result, mips_dict, app_secrets, data, nonapp >>

\* _collect_mips_data: the credentials are read from _ssm_secrets, then the
\* login POST, raise_for_status and the AccessToken; no retry. An exception
\* is kept in `result` until the finally block has run
AppLogin(o, tok) ==
    /\ pc = "app_login"
    /\ IF app_secrets # "loaded"
       THEN /\ result' = [raised |-> TRUE, val |-> None]
            /\ pc' = "app_logout"
            /\ UNCHANGED << access_token, trace >>
       ELSE /\ trace' = Append(trace, "login")
            /\ IF o = "ok"
               THEN /\ access_token' = tok
                    /\ pc' = "app_chart"
                    /\ UNCHANGED result
               ELSE /\ result' = [raised |-> TRUE, val |-> None]
                    /\ pc' = "app_logout"
                    /\ UNCHANGED access_token
    /\ UNCHANGED << entry, event, mips_dict, app_secrets, data, nonapp >>

\* _collect_mips_data: GET the chart of accounts, raise_for_status, keep the
\* answer in the local `accounts` (`data`) and fill mips_dict
AppChart(o, chart) ==
    /\ pc = "app_chart"
    /\ trace' = Append(trace, "accounts")
    /\ pc' = "app_logout"
    /\ IF o = "ok"
       THEN /\ data' = chart
            /\ mips_dict' = Dict(SetAll(mips_dict.items, chart.items, 1))
            /\ UNCHANGED result
       ELSE /\ result' = [raised |-> TRUE, val |-> None]
            /\ UNCHANGED << data, mips_dict >>
    /\ UNCHANGED << entry, event, access_token, app_secrets, nonapp >>

\* variant: the finally block logs out only when a token was obtained
CollectFinally_TokenOnly(tok) == tok # NoToken

\* the finally block of _collect_mips_data posts the logout whatever the
\* token, None included
CollectFinally(tok) == TRUE

\* the finally block of _collect_mips_data: the logout POST is made whatever
\* happened and whatever the token (no raise_for_status, no retry); then the
\* pending exception, or the one of the logout POST, is raised
AppLogout(o) ==
    /\ pc = "app_logout"
    /\ trace' = IF CollectFinally(access_token) THEN Append(trace, "logout") ELSE trace
    /\ IF (o \in { "ok", "http_error" } \/ ~CollectFinally(access_token)) /\ ~result.raised
       THEN pc' = "app_return" /\ UNCHANGED result
       ELSE pc' = "done" /\ result' = [raised |-> TRUE, val |-> None]
    /\ UNCHANGED << entry, event, access_token, mips_dict, app_secrets, data, nonapp >>

\* `data = self._get_mips_data(lookup); return data`
AppReturn ==
    /\ pc = "app_return"
    /\ pc' = "done"
    /\ result' = [raised |-> FALSE, val |-> GetMipsData(mips_dict, event.path)]
    /\ UNCHANGED << entry, event, access_token, trace, mips_dict, app_secrets, data, nonapp >>

-----------------------------------------------------------------------------
\* The S3Cache class (mips_api/cache.py)

\* str.encode(): the UTF-8 bytes of each character
RECURSIVE Utf8Encode(_)
Utf8Encode(text) ==
    IF Len(text) = 0 THEN << >>
    ELSE (IF Head(text) = "e'" THEN << 195, 169 >> ELSE << 97 >>) \o Utf8Encode(Tail(text))

\* bytes.decode('utf-8'): one character per one- or two-byte sequence
RECURSIVE Utf8Decode(_)
Utf8Decode(bytes) ==
    IF Len(bytes) = 0 THEN << >>
    ELSE IF Head(bytes) < 128 THEN << "a" >> \o Utf8Decode(Tail(bytes))
    ELSE << "e'" >> \o Utf8Decode(Tail(Tail(bytes)))

\* variant: an object whose age equals max_age_days is still served
Fresh_Inclusive(age, max_age) == age <= max_age

\* get_cache: `now - cache_date < max_age`
Fresh(age, max_age) == age < max_age

\* S3Cache() with CacheBucketExpirationDays unset (three days) or set to
\* one day, and an empty bucket
InitS3Cache ==
    /\ pc = "idle"
    /\ entry = "none"
    /\ fn = "none"
    /\ event = NoEvent
    /\ ssm_secrets = "none"
    /\ access_token = NoToken
    /\ data = None
    /\ period = "none"
    /\ attempt = 1
    /\ trace = << >>
    /\ upstream_data = None
    /\ cache_path = "none"
    /\ cache_data = None
    /\ result = NoResult
    /\ response = NoResponse
    /\ store = [p \in Paths |-> NoObject]
    /\ phase = "none"
    /\ gl_chart = None
    /\ cycle = NoCycle
    /\ cc = NoCacheCall
    /\ hist = [lastUp |-> [p \in Paths |-> None],
               synced |-> [p \in Paths |-> FALSE],
               last   |-> None]
    /\ raw_chart = None
    /\ query = NoQuery
    /\ processed = None
    /\ reprocessed = None
    /\ limited = None
    /\ tags = None
    /\ logins = << >>
    /\ logouts = << >>
    /\ mips_dict = EmptyDict
    /\ app_secrets = "none"
    /\ s3cache \in { [max_age_days |-> d, now |-> 0,
                      objects |-> [k \in { "/a", "/b" } |-> NoObject],
                      put |-> [k \in { "/a", "/b" } |-> None]] : d \in { 1, 3 } }

\* put_cache(key, data): put_object with the encoded data; an S3 error
\* propagates and stores nothing
PutCache(key, text, ok) ==
    /\ pc = "idle"
    /\ pc' = "done"
    /\ entry' = "put_cache"
    /\ cache_path' = key
    /\ IF ok
       THEN /\ s3cache' = [s3cache EXCEPT
                  !.objects[key] = [present |-> TRUE, modified |-> s3cache.now,
                                    json |-> [kind |-> "bytes", items |-> Utf8Encode(text)]],
                  !.put[key] = [kind |-> "text", items |-> text]]
            /\ result' = [raised |-> FALSE, val |-> None]
       ELSE /\ result' = [raised |-> TRUE, val |-> None]
            /\ UNCHANGED s3cache
    /\ UNCHANGED << fn, event, ssm_secrets, access_token, data, period, attempt, trace,
                    upstream_data, cache_data, response, store, phase, gl_chart,
                    cycle, cc, hist, raw_chart, query, processed, reprocessed,
                    limited, tags, logins, logouts, mips_dict, app_secrets >>

\* get_cache(key): get_object raises for a missing key; a fresh object is
\* decoded and returned, for an older one an exception is raised
GetCache(key) ==
    /\ pc = "idle"
    /\ pc' = "done"
    /\ entry' = "get_cache"
    /\ cache_path' = key
    /\ LET obj == s3cache.objects[key]
       IN  result' =
             IF obj.present /\ Fresh(s3cache.now - obj.modified, s3cache.max_age_days)
             THEN [raised |-> FALSE,
                   val |-> [kind |-> "text", items |-> Utf8Decode(obj.json.items)]]
             ELSE [raised |-> TRUE, val |-> None]
    /\ UNCHANGED << fn, event, ssm_secrets, access_token, data, period, attempt, trace,
                    upstream_data, cache_data, response, store, phase, gl_chart,
                    cycle, cc, hist, raw_chart, query, processed, reprocessed,
                    limited, tags, logins, logouts, mips_dict, app_secrets, s3cache >>

\* a day goes by between two calls
Tick ==
    /\ pc = "idle"
    /\ s3cache.now < MaxDays
    /\ s3cache' = [s3cache EXCEPT !.now = @ + 1]
    /\ UNCHANGED << pc, entry, fn, event, ssm_secrets, access_token, data, period,
                    attempt, trace, upstream_data, cache_path, cache_data, result,
                    response, store, phase, gl_chart, cycle, cc, hist, raw_chart,
                    query, processed, reprocessed, limited, tags, logins, logouts, mips_dict,
                    app_secrets >>

-----------------------------------------------------------------------------
\* Specifications

\* one backoff-decorated call of the upstream cycle, or its return
UpstreamStep ==
    \/ \E o \in Outcomes, tok \in { Token, NoToken }, b \in BOOLEAN : Login(o, tok, b)
    \/ \E o \in Outcomes, b \in BOOLEAN : GetSegmentId(o, b)
    \/ \E o \in Outcomes, b \in BOOLEAN : \E chart \in ChartsOf(phase) :
          GetChartSegment(o, chart, b)
    \/ \E o \in Outcomes, b \in BOOLEAN : Logout(o, b)
    \/ UpstreamReturn

BalanceStep ==
    \/ \E ok \in BOOLEAN, p \in Periods : TargetPeriod(ok, p)
    \/ \E o \in Outcomes, bal \in BalanceResponses, b \in BOOLEAN : GetBalance(o, bal, b)

CacheStep ==
    \/ \E ok \in BOOLEAN : CacheRead(ok)
    \/ \E ok \in BOOLEAN : CacheWrite(ok)
    \/ CacheReturn

ChartEvents == { ev \in Events : ev.path # ApiTrialBalances }

BalanceEvents == { ev \in Events : ev.path = ApiTrialBalances }

\* lambda_handler called again and again on the chart routes
Next ==
    \/ \E ev \in ChartEvents, env_ok \in BOOLEAN : CallLambdaHandler(ev, env_ok)
    \/ \E ok \in BOOLEAN : GetSecrets(ok)
    \/ UpstreamStep
    \/ CacheStep
    \/ Respond
    \/ Finish

Spec == Init /\ [][Next]_vars

\* lambda_handler called again and again on the balances route
NextBalances ==
    \/ \E ev \in BalanceEvents, env_ok \in BOOLEAN : CallLambdaHandler(ev, env_ok)
    \/ \E ok \in BOOLEAN : GetSecrets(ok)
    \/ UpstreamStep
    \/ BalanceStep
    \/ CacheStep
    \/ Respond
    \/ Finish

SpecBalances == Init /\ [][NextBalances]_vars

\* upstream.get_chart and upstream.trial_balances called directly
NextUpstream ==
    \/ \E seg \in { "program", "gl" } : CallGetChart(seg)
    \/ CallTrialBalances
    \/ UpstreamStep
    \/ BalanceStep
    \/ Finish

SpecUpstream == Init /\ [][NextUpstream]_vars

\* s3.cache called directly, again and again, on two cache paths
NextCache ==
    \/ \E u \in { None, EmptyDict } \cup ProgramCharts,
          path \in { PathProgram(TRUE), PathProgram(FALSE) } : CallCache(u, path)
    \/ CacheStep
    \/ Finish

SpecCache == Init /\ [][NextCache]_vars

\* what each S3 object holds after an earlier successful request
Seed(path) ==
    IF path \in { PathProgram(TRUE), PathProgram(FALSE) } THEN Dict(ChartA)
    ELSE IF path = PathGL(TRUE) THEN Dict(GLChart)
    ELSE UpstreamResult("trial_balances", Dict(BalanceSuccess), "2025-04")

\* bucket contents a request may find: any subset of the objects written
SeededStores ==
    { [p \in Paths |-> IF p \in S THEN Obj(Seed(p)) ELSE NoObject] : S \in SUBSET Paths }

InitRoutes ==
    /\ pc = "idle"
    /\ entry = "none"
    /\ fn = "none"
    /\ event = NoEvent
    /\ ssm_secrets = "none"
    /\ access_token = NoToken
    /\ data = None
    /\ period = "none"
    /\ attempt = 1
    /\ trace = << >>
    /\ upstream_data = None
    /\ cache_path = "none"
    /\ cache_data = None
    /\ result = NoResult
    /\ response = NoResponse
    /\ store \in SeededStores
    /\ phase = "none"
    /\ gl_chart = None
    /\ cycle = NoCycle
    /\ cc = NoCacheCall
    /\ hist = [lastUp |-> [p \in Paths |-> None],
               synced |-> [p \in Paths |-> FALSE],
               last   |-> None]
    /\ raw_chart = None
    /\ query = NoQuery
    /\ processed = None
    /\ reprocessed = None
    /\ limited = None
    /\ tags = None
    /\ logins = << >>
    /\ logouts = << >>
    /\ mips_dict = EmptyDict
    /\ app_secrets = "none"
    /\ s3cache = [max_age_days |-> 3, now |-> 0,
                  objects |-> [k \in { "/a", "/b" } |-> NoObject],
                  put |-> [k \in { "/a", "/b" } |-> None]]

\* one invocation of lambda_handler, on any route, over any bucket content
NextRoutes ==
    \/ \E ev \in RouteEvents, env_ok \in BOOLEAN : CallLambdaHandler(ev, env_ok)
    \/ \E ok \in BOOLEAN : GetSecrets(ok)
    \/ UpstreamStep
    \/ phase = "program" /\ GetChartSegment("ok", Dict(ChartC), TRUE)
    \/ BalanceStep
    \/ CacheStep
    \/ Respond

SpecRoutes == InitRoutes /\ [][NextRoutes]_vars

\* chart.process_chart called directly, once and then on its own output
NextChart ==
    \/ CallProcessChart
    \/ CallProcessChartAgain

SpecChart == InitChart /\ [][NextChart]_vars

\* chart.limit_chart called directly, chart.list_tags on what it returned
NextTags ==
    \/ CallLimitChart
    \/ CallListTags

SpecTags == InitTags /\ [][NextTags]_vars

\* one App instance: collect_secrets and get_mips_data called again and
\* again, next to lambda_handler on the chart-of-accounts route
NextApp ==
    \/ \E ok \in BOOLEAN : CollectSecrets(ok)
    \/ \E lookup \in Lookups : CallGetMipsData(lookup)
    \/ \E o \in Outcomes, tok \in { Token, NoToken } : AppLogin(o, tok)
    \/ \E o \in Outcomes, chart \in AppCharts : AppChart(o, chart)
    \/ \E o \in Outcomes : AppLogout(o)
    \/ AppReturn
    \/ \E ev \in { e \in ChartEvents : e.path = ApiChartOfAccounts /\ ~e.show_inactive } :
          CallLambdaHandler(ev, TRUE)
    \/ \E ok \in BOOLEAN : GetSecrets(ok)
    \/ UpstreamStep
    \/ CacheStep
    \/ Respond
    \/ Finish

SpecApp == Init /\ [][NextApp]_vars

\* one S3Cache instance: put_cache and get_cache called again and again
\* while the days go by
NextS3Cache ==
    \/ \E key \in { "/a", "/b" }, text \in { << "a" >>, << "e'", "a" >> }, ok \in BOOLEAN :
          PutCache(key, text, ok)
    \/ \E key \in { "/a", "/b" } : GetCache(key)
    \/ Tick
    \/ Finish

SpecS3Cache == InitS3Cache /\ [][NextS3Cache]_vars

-----------------------------------------------------------------------------
\* Properties

\* the running call is a direct call of `name` that has returned or raised
Returned(name) == pc = "done" /\ entry = name

\* C1: in get_chart, whatever the outcomes of the login, segment and account
\* calls, _logout is called exactly once when _login returned a token and not
\* at all when _login raised (or returned no token).
C1_GetChartLogoutPairing ==
    (fn = "get_chart" /\ pc \in { "upstream_return", "done" }) =>
        /\ cycle.login = "token" => cycle.logouts = 1 /\ Count(trace, "logout") = 1
        /\ cycle.login # "token" => cycle.logouts = 0 /\ Count(trace, "logout") = 0

\* C1 witness: login gave a token, the segment call failed, get_chart has
\* logged out once and is about to return
C1_Witness ==
    /\ fn = "get_chart" /\ pc = "upstream_return"
    /\ trace = << "login", "segment", "logout" >>
    /\ cycle.login = "token" /\ cycle.logouts = 1

\* C2: in trial_balances, _logout is called exactly once if and only if
\* _login succeeded; when _login fails no logout call is made.
C2_TrialBalancesLogoutIffLogin ==
    (fn = "trial_balances" /\ pc \in { "upstream_return", "done" }) =>
        /\ cycle.login = "token" => cycle.logouts = 1
        /\ cycle.login = "raised" => cycle.logouts = 0

\* C3: an exception of _logout never leaves get_chart / trial_balances and
\* never changes the result: the call returns the value it held before the
\* logout (trial_balances with its period dates added), whether the logout
\* succeeded or raised.
C3_LogoutFailureHarmless ==
    /\ (pc = "upstream_return" /\ cycle.logouts > 0) => data = cycle.pre
    /\ (pc = "done" /\ cycle.logouts > 0) =>
           /\ ~result.raised
           /\ result.val = UpstreamResult(fn, cycle.pre, period)

\* C3 witness: get_chart fetched a chart, the logout raised, the chart was
\* returned
C3_Witness ==
    /\ Returned("get_chart")
    /\ cycle.logout_raised
    /\ Truthy(cycle.pre)
    /\ result = [raised |-> FALSE, val |-> cycle.pre]

\* C4: s3.cache calls _write only when upstream_data is non-empty and differs
\* from the value read; when (non-empty) upstream_data equals the cached
\* value there is no write and upstream_data is returned.
C4_WriteOnlyOnChange ==
    /\ cc.writes > 0 => Truthy(upstream_data) /\ ~PyEq(upstream_data, cache_data)
    /\ (Returned("cache") /\ Truthy(upstream_data) /\ PyEq(upstream_data, cache_data)) =>
           /\ cc.writes = 0
           /\ store[cache_path] = cc.before
           /\ result = [raised |-> FALSE, val |-> upstream_data]

\* C4 witness: upstream lists the cached mapping in another order; nothing
\* is written and the upstream value is returned
C4_Witness ==
    /\ Returned("cache")
    /\ upstream_data = Dict(ChartA2) /\ cache_data = Dict(ChartA)
    /\ cc.writes = 0
    /\ result.val = upstream_data

\* C5: when upstream_data is non-empty and differs from the cached value
\* (also when nothing is cached), s3.cache calls _write exactly once, with
\* upstream_data, and returns upstream_data.
C5_OneWriteOnChange ==
    (Returned("cache") /\ Truthy(upstream_data) /\ ~PyEq(upstream_data, cache_data)) =>
        /\ cc.writes = 1 /\ Count(trace, "write") = 1
        /\ cc.written = upstream_data
        /\ ~cc.write_failed => store[cache_path] = Obj(upstream_data)
        /\ result = [raised |-> FALSE, val |-> upstream_data]

\* C5 witness: nothing cached, chart B fetched, written and returned
C5_Witness ==
    /\ Returned("cache")
    /\ upstream_data = Dict(ChartB) /\ cache_data = None
    /\ cc.before = NoObject
    /\ store[cache_path] = Obj(Dict(ChartB))

\* C6 as stated: when upstream_data is absent or empty and the store holds a
\* non-empty value B, s3.cache writes nothing, leaves the store unchanged and
\* returns B.
C6_FallbackOnStore ==
    (Returned("cache") /\ ~Truthy(upstream_data)
        /\ cc.before.present /\ Truthy(cc.before.json)) =>
        /\ cc.writes = 0
        /\ store[cache_path] = cc.before
        /\ result = [raised |-> FALSE, val |-> cc.before.json]

\* C6 amended: when upstream_data is absent or empty, the store holds a
\* non-empty value B and the cache read succeeds, s3.cache writes nothing,
\* leaves the store unchanged and returns B.
C6_FallbackOnReadableStore ==
    (Returned("cache") /\ ~Truthy(upstream_data)
        /\ cc.before.present /\ Truthy(cc.before.json) /\ ~cc.read_failed) =>
        /\ cc.writes = 0
        /\ store[cache_path] = cc.before
        /\ result = [raised |-> FALSE, val |-> cc.before.json]

\* C6 witness: upstream gave nothing (None), chart A is cached and returned
C6_Witness ==
    /\ Returned("cache")
    /\ upstream_data = None
    /\ cc.before = Obj(Dict(ChartA)) /\ ~cc.read_failed
    /\ result = [raised |-> FALSE, val |-> Dict(ChartA)]

\* C7: s3.cache never returns an empty value: when upstream_data is empty and
\* the cached value is empty, missing or unreadable, it raises and writes
\* nothing.
C7_NeverReturnsEmpty ==
    /\ (Returned("cache") /\ ~result.raised) => Truthy(result.val)
    /\ (Returned("cache") /\ ~Truthy(upstream_data) /\ ~Truthy(cache_data)) =>
           /\ result.raised
           /\ cc.writes = 0
           /\ store[cache_path] = cc.before

\* C7 witness: empty upstream value and an empty cached object: the call raised
C7_Witness ==
    /\ Returned("cache")
    /\ upstream_data = EmptyDict
    /\ cc.before = Obj(EmptyDict) /\ ~cc.read_failed
    /\ result.raised

\* C8: with non-empty upstream_data neither a read failure nor a write
\* failure is fatal: a failed read counts as no cached value (one write is
\* attempted) and upstream_data is returned even when the write failed.
C8_CacheFailuresNotFatal ==
    (Returned("cache") /\ Truthy(upstream_data)) =>
        /\ result = [raised |-> FALSE, val |-> upstream_data]
        /\ cc.read_failed => cache_data = None /\ cc.writes = 1

\* C8 witness: the stored object could not be read and the write failed too;
\* the upstream value was returned
C8_Witness ==
    /\ Returned("cache")
    /\ Truthy(upstream_data)
    /\ cc.before.present /\ cc.read_failed /\ cc.write_failed
    /\ result.val = upstream_data

\* the store holds (a mapping equal to) value v under path p
Holds(p, v) == store[p].present /\ PyEq(store[p].json, v)

\* C9 as stated: between requests, the value in the store equals the most
\* recent non-empty value fetched from upstream for that cache key.
C9_StoreIsLastFetched ==
    pc = "idle" =>
        \A p \in Paths : hist.lastUp[p] # None => Holds(p, hist.lastUp[p])

\* C9 amended: the value in the store equals the most recent non-empty value
\* fetched from upstream for that cache key once that value was found equal
\* to the cached one or written without a failure; after a failed write the
\* store keeps its previous content.
C9_StoreIsLastStored ==
    \A p \in Paths : hist.synced[p] => Holds(p, hist.lastUp[p])

\* C9 witness: chart B replaced chart A in the store
C9_Witness ==
    /\ Returned("cache")
    /\ cc.before = Obj(Dict(ChartA))
    /\ hist.synced[cache_path] /\ hist.lastUp[cache_path] = Dict(ChartB)
    /\ store[cache_path] = Obj(Dict(ChartB))

\* a lambda_handler call on a chart route has ended after an upstream
\* failure: s3.cache was given no chart
OutageRequest ==
    /\ Returned("lambda_handler")
    /\ event.path \in { ApiChartOfAccounts, ApiValidTags }
    /\ Count(trace, "read") = 1
    /\ ~Truthy(upstream_data)

\* C10 as stated: once some request has fetched a non-empty chart, every later
\* chart request during which upstream fails answers with a chart, the last
\* one fetched, not with an error.  Stated here for the runs the claim has in
\* mind, where S3 works: the last chart fetched was stored and the cache
\* read of the later request does not fail.
C10_OutageInvisible ==
    (/\ OutageRequest
     /\ hist.last # None
     /\ \E p \in Paths : hist.synced[p] /\ hist.lastUp[p] = hist.last
     /\ ~cc.read_failed) =>
        /\ response.statusCode = 200
        /\ PyEq(data, hist.last)

\* C10 amended: once some request has fetched a non-empty chart and the chart
\* is in the store under its cache key (written without failure or already
\* equal), every later chart request with the same cache key during which
\* upstream fails and the cache read succeeds answers with a chart, the last
\* one fetched for that key, not with an error.
C10_OutageInvisibleSameKey ==
    (OutageRequest /\ hist.synced[cache_path] /\ ~cc.read_failed) =>
        /\ response.statusCode = 200
        /\ PyEq(data, hist.lastUp[cache_path])

\* C10 witness: upstream failed after login, the chart fetched earlier was
\* served from the cache
C10_Witness ==
    /\ OutageRequest
    /\ cycle.login = "token" /\ cycle.logouts = 1
    /\ hist.synced[cache_path] /\ ~cc.read_failed
    /\ response.statusCode = 200
    /\ data = Dict(ChartA)

\* C11 as stated: every invocation of lambda_handler, on every route, performs
\* at most one upstream login/fetch/logout cycle and at most one cache read
\* plus at most one cache write.
C11_OneCyclePerInvocation ==
    entry = "lambda_handler" =>
        /\ Count(trace, "login") <= 1
        /\ Count(trace, "logout") <= 1
        /\ Count(trace, "accounts") + Count(trace, "balance") <= 1
        /\ Count(trace, "read") <= 1
        /\ Count(trace, "write") <= 1

\* datasets the route serves: the balances route needs the GL chart and the
\* balances, every other route the program chart
DatasetsOf(ev) == IF ev.hasPath /\ ev.path = ApiTrialBalances THEN 2 ELSE 1

\* C11 amended: every invocation of lambda_handler performs, per dataset it
\* fetches, at most one upstream login/fetch/logout cycle and at most one
\* cache read plus at most one cache write: one of each on the chart routes
\* (and on an unknown route), two on the balances route, where the GL chart
\* and the balances are fetched and cached one after the other.
C11_OneCyclePerDataset ==
    entry = "lambda_handler" =>
        /\ Count(trace, "login") <= DatasetsOf(event)
        /\ Count(trace, "logout") <= DatasetsOf(event)
        /\ Count(trace, "accounts") <= 1
        /\ Count(trace, "balance") <= DatasetsOf(event) - 1
        /\ Count(trace, "read") <= DatasetsOf(event)
        /\ Count(trace, "write") <= DatasetsOf(event)

\* C11 witness: a balances request that logged in, fetched, logged out, read
\* and wrote the cache twice and answered 200
C11_Witness ==
    /\ Returned("lambda_handler")
    /\ event.path = ApiTrialBalances
    /\ trace = << "secrets", "login", "segment", "accounts", "logout", "read", "write",
                  "login", "balance", "logout", "read", "write" >>
    /\ response.statusCode = 200

\* C12: get_balances writes to the cache only a successful upstream balance
\* response: when the login or the balance fetch of trial_balances failed
\* while a balance snapshot is cached, nothing is written to the store and
\* the cached snapshot is what get_balances returns.
C12_FailedFetchNotCached ==
    (/\ entry = "lambda_handler" /\ phase = "bal" /\ fn = "trial_balances"
     /\ pc \in { "respond", "done" }
     /\ cache_path = PathBalances(TRUE)
     /\ cycle.pre = EmptyDict
     /\ cc.before.present /\ Truthy(cc.before.json) /\ ~cc.read_failed) =>
        /\ cc.writes = 0
        /\ store[cache_path] = cc.before
        /\ pc = "respond" => data = cc.before.json

\* a direct process_chart call has returned
Processed == pc \in { "processed", "reprocessed" }

\* the codes process_chart puts in front under the parameters q
SyntheticCodes(q) ==
    (IF q.show_other THEN { OtherCode } ELSE { })
        \cup (IF q.show_no_program THEN { NoProgramCode } ELSE { })

\* C13 as stated: for every raw chart and every option combination, every
\* account code in the output of process_chart has exactly 6 characters.
C13_CodesHaveSixChars ==
    Processed =>
        \A i \in 1..Len(processed.items) : Len(processed.items[i].code) = 6

\* C13 amended: every account code in the output of process_chart has at most
\* 6 characters and at least the length threshold: exactly 6 when
\* hide_inactive is set, 5 or 6 otherwise (a 5-character raw code is kept
\* whole); the synthetic codes are the configured ones.
C13_CodesWithinThreshold ==
    Processed =>
        \A i \in 1..Len(processed.items) :
            LET code == processed.items[i].code
            IN  \/ code \in SyntheticCodes(query)
                \/ IF query.hide_inactive THEN Len(code) = 6
                   ELSE Len(code) \in { 5, 6 }

\* C13 witness: without hide_inactive the output holds a 5-character code
\* next to a truncated 8-character one
C13_Witness ==
    /\ Processed
    /\ ~query.hide_inactive
    /\ <<5,4,3,2,1>> \in Keys(processed.items)
    /\ <<1,2,3,4,5,6>> \in Keys(processed.items)
    /\ <<1,2,3,4,5,6,0,0>> \in Keys(raw_chart.items)

\* the raw entries whose code passes the length threshold of the parameters q
\* and begins with the short code c
RawWith(c, q) ==
    { i \in 1..Len(raw_chart.items) :
        /\ Len(raw_chart.items[i].code) >= (IF q.hide_inactive THEN 6 ELSE 5)
        /\ Prefix(raw_chart.items[i].code, 6) = c }

FirstOf(S) == CHOOSE i \in S : \A j \in S : i <= j

\* C14: process_chart deduplicates on the first 6 characters: the output
\* holds each short code at most once, and the name of an entry is the
\* sanitized name of the first raw entry, in raw order, that has that
\* 6-character prefix and passes the length threshold.
C14_FirstPrefixWins ==
    Processed =>
        /\ \A i, j \in 1..Len(processed.items) :
               i # j => processed.items[i].code # processed.items[j].code
        /\ \A i \in 1..Len(processed.items) :
               LET e == processed.items[i]
                   S == RawWith(e.code, query)
               IN  S # { } =>
                       e.name = Sanitize(raw_chart.items[FirstOf(S)].name)

\* C14 witness: 12345601 comes before 12345600 in the raw chart; the output
\* holds 123456 once, under the name of 12345601
C14_Witness ==
    /\ Processed
    /\ Len(raw_chart.items) = 3
    /\ raw_chart.items[1].code = <<2,3,4,5,6,7,0,0>>
    /\ raw_chart.items[2].code = <<1,2,3,4,5,6,0,1>>
    /\ raw_chart.items[3].code = <<1,2,3,4,5,6,0,0>>
    /\ \E i \in 1..Len(processed.items) :
           processed.items[i] = Entry(<<1,2,3,4,5,6>>, <<"P","a","r","t"," ","B">>)
    /\ \E i \in 1..Len(processed.items) :
           processed.items[i] = Entry(<<2,3,4,5,6,7>>, <<"O","p","s">>)

\* the entries of the output that process_chart moved to the front as
\* priority codes and that are not synthetic codes
PriorityMatches ==
    { i \in 1..Len(processed.items) :
        /\ query.has_priority
        /\ Contains(query.priority_codes, processed.items[i].code)
        /\ processed.items[i].code \notin SyntheticCodes(query) }

\* C15 as stated: process_chart is idempotent with hide_inactive=false:
\* applied to its own output with the same omit list, synthetic codes and
\* options (priority_codes included) it yields the same entries in the same
\* order.
C15_Idempotent ==
    (pc = "reprocessed" /\ ~query.hide_inactive) => reprocessed = processed

\* C15 amended: with hide_inactive=false, process_chart applied to its own
\* output with the same omit list, synthetic codes and options yields the
\* same entries in the same order provided at most one entry outside the
\* synthetic codes matches priority_codes; with two or more matches the
\* second pass lists the priority entries in the opposite order.
C15_IdempotentUpToOnePriority ==
    (pc = "reprocessed" /\ ~query.hide_inactive /\ Cardinality(PriorityMatches) <= 1) =>
        reprocessed = processed

\* C15 witness: a chart with a priority match, synthetic codes and a
\* 5-character code came out of the second pass as it went in
C15_Witness ==
    /\ pc = "reprocessed" /\ ~query.hide_inactive
    /\ query.show_other /\ query.show_no_program
    /\ Cardinality(PriorityMatches) = 1
    /\ Len(processed.items) = 5
    /\ <<5,4,3,2,1>> \in Keys(processed.items)
    /\ reprocessed = processed

\* position of the code c in the output
PosOf(c) == Lookup(processed.items, c)

\* the entries of the output that are neither priority codes nor synthetic
Remaining ==
    { i \in 1..Len(processed.items) :
        /\ ~(query.has_priority
               /\ Contains(query.priority_codes, processed.items[i].code))
        /\ processed.items[i].code \notin SyntheticCodes(query) }

\* priority_codes holds the one code c
SinglePriority(c) == query.has_priority /\ query.priority_codes = << c >>

\* C16 as stated: given priority_codes=[c] where c is a code present in the
\* raw chart (the short code of a raw entry), c appears in the output of
\* process_chart before every non-priority, non-synthetic entry.
C16_PriorityCodeFirst ==
    Processed =>
        \A c \in { Prefix(code, 6) : code \in Keys(raw_chart.items) } :
            SinglePriority(c) =>
                /\ c \in Keys(processed.items)
                /\ \A i \in Remaining : PosOf(c) < i

\* C16 amended: given priority_codes=[c] where c is the short code of a raw
\* entry that passes the length threshold and is not in the omit list, c
\* appears in the output of process_chart before every non-priority,
\* non-synthetic entry.
C16_AdmittedPriorityCodeFirst ==
    Processed =>
        \A c \in { Prefix(code, 6) : code \in Keys(raw_chart.items) } :
            (SinglePriority(c) /\ RawWith(c, query) # { } /\ ~Contains(CodesToOmit, c)) =>
                /\ c \in Keys(processed.items)
                /\ \A i \in Remaining : PosOf(c) < i

\* C16 witness: 123456 is the priority code and comes third in the raw
\* chart; in the output it stands before the two other entries
C16_Witness ==
    /\ Processed
    /\ SinglePriority(<<1,2,3,4,5,6>>)
    /\ ~query.show_other /\ ~query.show_no_program
    /\ Len(raw_chart.items) = 3
    /\ raw_chart.items[3].code = <<1,2,3,4,5,6,0,0>>
    /\ Len(processed.items) = 3
    /\ processed.items[1].code = <<1,2,3,4,5,6>>
    /\ Remaining = { 2, 3 }

\* place in the raw chart of the entry the output entry i derives from
RawIndex(i) == FirstOf(RawWith(processed.items[i].code, query))

\* C17 as stated: when several raw entries match priority_codes, process_chart
\* keeps them in their raw iteration order in the output: each new priority
\* match is placed after the priority entries inserted before it and before
\* all non-priority entries.
C17_PriorityKeepsRawOrder ==
    Processed =>
        /\ \A i, j \in PriorityMatches : i < j => RawIndex(i) < RawIndex(j)
        /\ \A i \in PriorityMatches : \A j \in Remaining : i < j

\* C17 amended: when several raw entries match priority_codes, they stand in
\* the output in the reverse of their raw iteration order: each new priority
\* match is placed before every entry inserted so far, the earlier priority
\* matches included, and so before all non-priority entries.
C17_PriorityReversesRawOrder ==
    Processed =>
        /\ \A i, j \in PriorityMatches : i < j => RawIndex(i) > RawIndex(j)
        /\ \A i \in PriorityMatches : \A j \in Remaining : i < j

\* C17 witness: 23456700 comes before 54321 in the raw chart and both are
\* priority codes; the output lists 54321, then 234567, then the rest
C17_Witness ==
    /\ Processed
    /\ ~query.show_other /\ ~query.show_no_program
    /\ Len(raw_chart.items) = 3
    /\ raw_chart.items[1].code = <<1,2,3,4,5,6,0,0>>
    /\ raw_chart.items[2].code = <<2,3,4,5,6,7,0,0>>
    /\ raw_chart.items[3].code = <<5,4,3,2,1>>
    /\ Keys(processed.items) = { <<5,4,3,2,1>>, <<2,3,4,5,6,7>>, <<1,2,3,4,5,6>> }
    /\ processed.items[1].code = <<5,4,3,2,1>>
    /\ processed.items[2].code = <<2,3,4,5,6,7>>
    /\ processed.items[3].code = <<1,2,3,4,5,6>>

\* the synthetic entries of the output
Synthetic ==
    { i \in 1..Len(processed.items) :
        processed.items[i].code \in SyntheticCodes(query) }

\* C18: in every output of process_chart all synthetic entries (Other, No
\* Program) precede all priority entries, which precede all remaining
\* entries, and the non-priority entries keep their relative raw-chart order.
C18_OutputOrdering ==
    Processed =>
        /\ \A s \in Synthetic : \A i \in PriorityMatches \cup Remaining : s < i
        /\ \A p \in PriorityMatches : \A r \in Remaining : p < r
        /\ \A i, j \in Remaining : i < j => RawIndex(i) < RawIndex(j)

\* C18 witness: both synthetic entries, then the priority code 123456 that
\* stands last in the raw chart, then the two other entries in raw order
C18_Witness ==
    /\ Processed
    /\ Len(raw_chart.items) = 3
    /\ raw_chart.items[1].code = <<2,3,4,5,6,7,0,0>>
    /\ raw_chart.items[2].code = <<5,4,3,2,1>>
    /\ raw_chart.items[3].code = <<1,2,3,4,5,6,0,1>>
    /\ Len(processed.items) = 5
    /\ Synthetic = { 1, 2 } /\ PriorityMatches = { 3 } /\ Remaining = { 4, 5 }
    /\ processed.items[4].code = <<2,3,4,5,6,7>>
    /\ processed.items[5].code = <<5,4,3,2,1>>

NoProgramEntry == Entry(NoProgramCode, <<"N","o"," ","P","r","o","g","r","a","m">>)

OtherEntry == Entry(OtherCode, <<"O","t","h","e","r">>)

\* C19: for every raw chart, when show_other and show_no_program are both set
\* the first output entry of process_chart is no_program_code mapped to
\* "No Program" and the second is other_code mapped to "Other"; when only one
\* is set, its code mapped to its fixed name is the first entry.
C19_SyntheticEntriesLead ==
    Processed =>
        /\ (query.show_no_program /\ query.show_other) =>
               /\ Len(processed.items) >= 2
               /\ processed.items[1] = NoProgramEntry
               /\ processed.items[2] = OtherEntry
        /\ (query.show_no_program /\ ~query.show_other) =>
               /\ Len(processed.items) >= 1
               /\ processed.items[1] = NoProgramEntry
        /\ (query.show_other /\ ~query.show_no_program) =>
               /\ Len(processed.items) >= 1
               /\ processed.items[1] = OtherEntry

\* the length threshold of the parameters q
Threshold(q) == IF q.hide_inactive THEN 6 ELSE 5

\* C20: process_chart skips every raw code shorter than the threshold, which
\* is 6 when hide_inactive is set and 5 otherwise: such a code is no key of
\* the output, and every output entry that is not an injected synthetic one
\* derives from a raw entry at or above the threshold.
C20_ShortCodesSkipped ==
    Processed =>
        /\ \A j \in 1..Len(raw_chart.items) :
               Len(raw_chart.items[j].code) < Threshold(query) =>
                   raw_chart.items[j].code \notin Keys(processed.items)
        /\ \A i \in 1..Len(processed.items) :
               \/ processed.items[i] \in { NoProgramEntry, OtherEntry }
               \/ \E j \in 1..Len(raw_chart.items) :
                      /\ Len(raw_chart.items[j].code) >= Threshold(query)
                      /\ processed.items[i].code = Prefix(raw_chart.items[j].code, 6)
                      /\ processed.items[i].name = Sanitize(raw_chart.items[j].name)

\* C20 witness: with hide_inactive the 5-character and the 4-character code
\* are skipped and only 123456 is output
C20_Witness ==
    /\ Processed
    /\ query.hide_inactive /\ ~query.show_other /\ ~query.show_no_program
    /\ Len(raw_chart.items) = 3
    /\ raw_chart.items[1].code = <<5,4,3,2,1>>
    /\ raw_chart.items[2].code = <<1,2,3,4>>
    /\ raw_chart.items[3].code = <<1,2,3,4,5,6,0,0>>
    /\ processed.items = << Entry(<<1,2,3,4,5,6>>, <<"P","a","r","t"," ","A">>) >>

\* the tag-safe set [A-Za-z0-9 .:/=+\-@]
TagSafe == Digits \cup Letters \cup { " ", ".", ":", "/", "=", "+", "-", "@" }

\* the output entry i was built from a raw entry (it is not an injected one)
Natural(i) == RawWith(processed.items[i].code, query) # { }

\* C21 as stated: every account name in the output of process_chart contains
\* only characters of the tag-safe set [A-Za-z0-9 .:/=+-@]; every other
\* character of the raw name is removed.
C21_NamesTagSafe ==
    Processed =>
        \A i \in 1..Len(processed.items) :
            /\ Range(processed.items[i].name) \subseteq TagSafe
            /\ Natural(i) =>
                   processed.items[i].name =
                       SelectSeq(raw_chart.items[RawIndex(i)].name,
                                 LAMBDA c : c \in TagSafe)

\* what the class [\d\w\s.:/=+\-@] keeps beyond the tag-safe set: the
\* underscore and non-ASCII letters (\w), tab and newline (\s)
WordAndSpaceExtras == { "_", "e'", "\t", "\n" }

\* C21 amended: every account name in the output of process_chart contains
\* only digits, word characters (letters, ASCII or not, and the underscore),
\* whitespace (space, tab, newline) and . : / = + - @; every other character
\* of the raw name is removed and the kept ones stay in order.
C21_NamesMatchRegexClass ==
    Processed =>
        \A i \in 1..Len(processed.items) :
            /\ Range(processed.items[i].name) \subseteq TagSafe \cup WordAndSpaceExtras
            /\ Natural(i) =>
                   processed.items[i].name =
                       SelectSeq(raw_chart.items[RawIndex(i)].name,
                                 LAMBDA c : c \in TagSafe \cup WordAndSpaceExtras)

\* C21 witness: "(Ops!)" came out as "Ops", and the name with an underscore,
\* a non-ASCII letter, a tab and "#" lost the "#" only
C21_Witness ==
    /\ Processed
    /\ ~query.show_other /\ ~query.show_no_program /\ ~query.has_priority
    /\ Keys(raw_chart.items) = { <<2,3,4,5,6,7,0,0>>, <<0,0,0,0,0,1,0,0>> }
    /\ Range(processed.items) =
           { Entry(<<2,3,4,5,6,7>>, <<"O","p","s">>),
             Entry(<<0,0,0,0,0,1>>, <<"M","_","e'","\t">>) }

\* C22: no code of omit_list ever appears as the short code of a natural
\* (non-synthetic) entry in the output of process_chart, whatever the raw
\* chart and priority_codes.
C22_OmittedNeverOutput ==
    Processed =>
        \A i \in 1..Len(processed.items) :
            Contains(CodesToOmit, processed.items[i].code) =>
                processed.items[i] \in { NoProgramEntry, OtherEntry }

\* C22 witness: 99990000 stands first in the raw chart and 999900 is the
\* priority code; the output holds the two other entries only
C22_Witness ==
    /\ Processed
    /\ SinglePriority(<<9,9,9,9,0,0>>)
    /\ ~query.show_other /\ ~query.show_no_program
    /\ Len(raw_chart.items) = 3
    /\ raw_chart.items[1].code = <<9,9,9,9,0,0,0,0>>
    /\ raw_chart.items[2].code = <<1,2,3,4,5,6,0,0>>
    /\ raw_chart.items[3].code = <<2,3,4,5,6,7,0,0>>
    /\ Len(processed.items) = 2
    /\ processed.items[1].code = <<1,2,3,4,5,6>>
    /\ processed.items[2].code = <<2,3,4,5,6,7>>

\* a direct limit_chart call has returned
Limited == pc \in { "limited", "tags" }

\* what limit_chart returns for its arguments
C23_LimitResult ==
    Limited =>
        LET n == query.limit
            L == Len(processed.items)
        IN  /\ (n = 0 \/ n >= L) => limited = processed
            /\ (0 < n /\ n < L) =>
                   /\ Len(limited.items) = n
                   /\ \A i \in 1..n : limited.items[i] = processed.items[i]

\* C23: limit_chart(chart, n) returns the chart unchanged for n = 0 and for
\* n >= len(chart), returns exactly the first n entries in original order for
\* 0 < n < len(chart), and never mutates its input chart.
C23_LimitChart == [] C23_LimitResult /\ [][processed' = processed]_vars

\* C23 witness: a chart of three entries cut to its first two
C23_Witness ==
    /\ Limited
    /\ query.limit = 2
    /\ Len(processed.items) = 3
    /\ limited.items = << processed.items[1], processed.items[2] >>

\* C24: list_tags(chart) returns one tag per chart entry, in chart order,
\* each made of the first 245 characters of the name, " / " and the first 6
\* characters of the code; the empty chart gives the empty list.
C24_TagPerEntry ==
    pc = "tags" =>
        /\ Len(tags.items) = Len(limited.items)
        /\ \A i \in 1..Len(limited.items) :
               LET name == limited.items[i].name
                   code == limited.items[i].code
               IN  /\ tags.items[i].name =
                          (IF Len(name) <= 245 THEN name ELSE SubSeq(name, 1, 245))
                   /\ tags.items[i].sep = " / "
                   /\ tags.items[i].code =
                          (IF Len(code) <= 6 THEN code ELSE SubSeq(code, 1, 6))
        /\ limited.items = << >> => tags.items = << >>

\* C24 witness: the 300-character name was cut to 245 characters and the
\* 8-character code to 6, the short entry after it was taken whole
C24_Witness ==
    /\ pc = "tags"
    /\ Len(limited.items) = 2
    /\ limited.items[1] = Entry(<<4,5,6,7,8,9,0,0>>, LongName)
    /\ Len(tags.items[1].name) = 245
    /\ tags.items[1].code = <<4,5,6,7,8,9>>
    /\ tags.items[2] = [name |-> <<"O","l","d">>, sep |-> " / ", code |-> <<5,4,3,2,1>>]

\* lambda_handler has answered
Answered == pc = "done" /\ entry = "lambda_handler"

\* a success response carrying a chart or a tag list
ChartSuccess == Answered /\ response.statusCode = 200 /\ response.body.kind \in { "dict", "list" }

\* C25: lambda_handler never returns a success (200) response whose chart
\* or tag list is empty.
C25_NoEmptySuccess ==
    ChartSuccess => Len(response.body.items) > 0

\* the raw entry is left out by process_chart: an omitted code, or a code
\* shorter than the request's threshold
LeftOut(e) ==
    \/ Contains(CodesToOmit, Prefix(e.code, 6))
    \/ Len(e.code) < (IF event.show_inactive THEN 5 ELSE 6)

\* C25 (amended): a success response is always built from a non-empty raw
\* chart (s3.cache raises when neither upstream nor the cache holds one);
\* its chart or tag list is empty only when the request hides the
\* "no program" entry and every entry of the raw chart is left out.
C25_SuccessFromNonEmptyRawChart ==
    ChartSuccess =>
        /\ Len(data.items) > 0
        /\ Len(response.body.items) = 0 =>
              /\ event.hide_no_program
              /\ \A i \in 1..Len(data.items) : LeftOut(data.items[i])

\* a request that hides the "no program" entry is answered 200 with an
\* empty body although the raw chart has entries
C25_Witness ==
    ChartSuccess /\ Len(response.body.items) = 0 /\ Len(data.items) > 0

\* the handler got past the environment variables: it went on to
\* get_secrets, or failed before that on the `limit` parameter
EnvLoaded == Answered /\ (Len(trace) > 0 \/ LimitRaises(event.limit))

\* the event's path is none of the configured routes
UnknownPath ==
    event.hasPath /\ event.path \notin { ApiChartOfAccounts, ApiValidTags, ApiTrialBalances }

\* C26: with all environment variables set, lambda_handler returns status 404
\* for every event whose path matches none of the configured routes and
\* status 400 for every event that has no path, whatever the state of
\* upstream and cache.
C26_StatusByPath ==
    EnvLoaded =>
        /\ UnknownPath => response.statusCode = 404
        /\ ~event.hasPath => response.statusCode = 400

\* C26 (amended): with the environment set, an event without path is
\* answered 400 once the query parameters are parsed and the secrets are
\* loaded, without any upstream call; an event with an unknown path is
\* answered 404 once, in addition, the program chart has been obtained from
\* upstream or from the cache; in every other case the answer is 500.
C26_StatusByPathWhenChartAtHand ==
    EnvLoaded =>
        /\ ~event.hasPath =>
              /\ response.statusCode =
                    IF ~LimitRaises(event.limit) /\ ssm_secrets = "loaded" THEN 400 ELSE 500
              /\ Count(trace, "login") = 0
        /\ UnknownPath =>
              response.statusCode =
                    IF /\ ~LimitRaises(event.limit)
                       /\ ssm_secrets = "loaded"
                       /\ (Truthy(upstream_data) \/ Truthy(cache_data))
                    THEN 404 ELSE 500

\* an unknown path is answered 500: the secrets are loaded, upstream has
\* failed and the cache holds no program chart
C26_Witness ==
    /\ EnvLoaded /\ UnknownPath
    /\ ssm_secrets = "loaded"
    /\ Count(trace, "read") = 1
    /\ response.statusCode = 500

\* C27: a `limit` query parameter that is not a non-negative integer
\* (non-numeric, empty or negative) is rejected as malformed input: the
\* handler answers with status 400 and performs no upstream login.
C27_BadLimitAnswered400 ==
    (EnvLoaded /\ LimitRaises(event.limit)) =>
        /\ response.statusCode = 400
        /\ Count(trace, "login") = 0

\* the running lambda_handler call has met an exception: a `limit` that
\* params_dict rejects, secrets that were not loaded (an unset environment
\* variable or a failing get_secrets), no chart from upstream and cache, or
\* balances that format_csv rejects
HandlerFailed ==
    \/ (event.limit.present /\ event.limit.text \in BadLimits)
    \/ ssm_secrets # "loaded"
    \/ (event.hasPath /\ phase \in { "program", "gl" }
          /\ ~Truthy(upstream_data) /\ ~Truthy(cache_data))
    \/ (phase = "bal" /\ (~Truthy(data) \/ ~CsvOk(data)))

\* C28: lambda_handler never raises: every exception raised while loading
\* configuration, secrets, fetching, caching or processing is turned into a
\* response with status 500 and an error message body.
C28_HandlerNeverRaises ==
    /\ entry = "lambda_handler" => ~result.raised
    /\ Answered =>
          /\ response.statusCode \in { 200, 400, 404, 500 }
          /\ HandlerFailed => response = Resp(500, ErrorBody)
          /\ response.statusCode = 500 => HandlerFailed

\* s3.cache has raised in a lambda_handler call (no chart from upstream and
\* none in the cache) and the call has ended with a 500 response
C28_Witness ==
    /\ Answered
    /\ ssm_secrets = "loaded"
    /\ Count(trace, "read") = 1
    /\ ~Truthy(upstream_data) /\ ~Truthy(cache_data)
    /\ response = Resp(500, ErrorBody)

\* outcomes of the attempts of the _login call under way or just over
LoginAttempts == logins

ChartRouteAnswered ==
    /\ Answered
    /\ ssm_secrets = "loaded"
    /\ event.hasPath /\ event.path # ApiTrialBalances

\* App.get_mips_data has returned a body
MipsDataReturned == Returned("get_mips_data") /\ ~result.raised

\* C30: no chart or token obtained during one call of a data entry point is
\* reused by a later call: every call of mip_api.lambda_handler on a chart
\* route and every call of App.get_mips_data performs its own upstream login
\* and fetch.
C30_EveryCallLogsIn ==
    /\ ChartRouteAnswered => Count(trace, "login") = 1
    /\ MipsDataReturned =>
          Count(trace, "login") = 1 /\ Count(trace, "accounts") = 1

\* C30 (amended): every call of mip_api.lambda_handler on a chart route
\* performs its own upstream login, starting without a token, and its own
\* fetch once a token is returned, and answers with the chart it fetched or,
\* when it fetched none, with the copy in the S3 cache; App.get_mips_data
\* logs in and fetches only while the instance's mips_dict is empty, and
\* once a call has filled it, later calls on the same instance return the
\* stored chart without any upstream request.
C30_AppQueriesOnlyWhenEmpty ==
    /\ ChartRouteAnswered =>
          /\ Count(trace, "login") = 1
          /\ cycle.login = "token" => Count(trace, "segment") = 1
          /\ response.statusCode = 200 =>
                data = IF Truthy(upstream_data) THEN upstream_data ELSE cache_data
    /\ (entry = "lambda_handler" /\ pc = "login") => access_token = NoToken
    /\ entry = "get_mips_data" =>
          /\ pc \in { "app_login", "app_chart" } => mips_dict = EmptyDict
          /\ (Count(trace, "accounts") = 0 /\ pc = "app_return") =>
                (Truthy(mips_dict) /\ trace = << >>)

\* a call of get_mips_data has returned the chart that an earlier call
\* stored, without any upstream request
C30_Witness ==
    /\ MipsDataReturned
    /\ trace = << >>
    /\ event.path = ApiAllCostCenters
    /\ result.val = Dict(ChartD)

\* a call of get_mips_data that went through _collect_mips_data is over:
\* mips_dict was empty when it started, or a request was made
CollectOver ==
    Returned("get_mips_data") /\ (~Truthy(mips_dict) \/ Len(trace) > 0)

\* C31: App._collect_mips_data posts exactly one logout per call both when
\* the chart request succeeds and when it raises, and an error raised by
\* the login or chart request propagates to the caller.
C31_OneLogoutAndErrorsPropagate ==
    CollectOver =>
        /\ Count(trace, "logout") = 1
        /\ trace[Len(trace)] = "logout"
        /\ (Count(trace, "login") = 1 /\ Count(trace, "accounts") = 0) => result.raised
        /\ (Count(trace, "accounts") = 1 /\ data = None) => result.raised

\* the chart request has raised after a successful login: one logout was
\* posted and the call has raised
C31_Witness ==
    /\ CollectOver
    /\ trace = << "login", "accounts", "logout" >>
    /\ data = None
    /\ result.raised

\* C32: S3Cache.get_cache(key) returns the body last stored by
\* put_cache(key, data) when the object's age is less than max_age_days, and
\* raises an exception when the object is missing or its age is
\* max_age_days or more.
C32_GetCacheRoundTrip ==
    Returned("get_cache") =>
        LET obj == s3cache.objects[cache_path]
            age == s3cache.now - obj.modified
        IN  IF obj.present /\ age < s3cache.max_age_days
            THEN ~result.raised /\ result.val = s3cache.put[cache_path]
            ELSE result.raised

\* a text with a two-byte character, stored two days ago, has been read back
C32_Witness ==
    /\ Returned("get_cache")
    /\ ~result.raised
    /\ result.val.items = << "e'", "a" >>
    /\ s3cache.now - s3cache.objects[cache_path].modified = 2

\* the upstream cycle under way holds a token whose logout has not been
\* attempted yet
SessionOpen == cycle.login = "token" /\ cycle.logouts = 0

\* C33: across any sequence of handler invocations at most one upstream
\* session is open at any time: a login is issued only when no token has
\* been obtained in the cycle under way, and a cycle is left (for the next
\* cycle of the same invocation or for the end of the invocation) only after
\* the logout for its token has been attempted.
C33_OneSessionAtATime ==
    /\ [](pc = "login" => (cycle.login = "none" /\ access_token = NoToken))
    /\ [][(cycle' = NoCycle /\ cycle # NoCycle) => ~SessionOpen]_vars
    /\ [](pc \in { "upstream_return", "read", "write", "cache_return", "respond", "done" }
            => ~SessionOpen)

\* the balances route is about to log in for its balance cycle after the
\* chart cycle has obtained a token and logged out
C33_Witness ==
    /\ entry = "lambda_handler"
    /\ fn = "trial_balances" /\ pc = "login"
    /\ trace = << "secrets", "login", "segment", "accounts", "logout", "read", "write" >>

\* the calls of a full get_chart cycle, in order
ChartCalls == << "login", "segment", "accounts" >>

SameValueAgain ==
    /\ Returned("cache")
    /\ Truthy(upstream_data)
    /\ cc.before.present /\ PyEq(cc.before.json, upstream_data)

\* C35 as stated: after a request whose cache write of value A succeeded, a
\* following request on the same cache key that fetches the same value A
\* performs zero writes.
C35_NoRewriteOfSameValue ==
    SameValueAgain => cc.writes = 0

\* C35 amended: after a request whose cache write of value A succeeded, a
\* following request on the same cache key that fetches the same value A and
\* whose cache read succeeds performs zero writes and leaves the stored
\* object as it was; when the read fails the same value is written again.
C35_NoRewriteWhenReadSucceeds ==
    (SameValueAgain /\ ~cc.read_failed) =>
        /\ cc.writes = 0 /\ Count(trace, "write") = 0
        /\ store[cache_path] = cc.before

\* C35 witness: chart B, written by an earlier call, is fetched again and
\* not written again
C35_Witness ==
    /\ SameValueAgain
    /\ upstream_data = Dict(ChartB) /\ cc.before = Obj(Dict(ChartB))
    /\ ~cc.read_failed /\ cc.writes = 0

\* the step is an account fetch of get_chart that fails for good
AccountFetchFails ==
    /\ fn = "get_chart"
    /\ \E o \in Outcomes \ { "ok" }, b \in BOOLEAN : \E chart \in ChartsOf(phase) :
          GetChartSegment(o, chart, b)
    /\ pc' # "accounts"

\* C36: get_chart never raises because of an upstream failure: when login,
\* the segment lookup or the account fetch fails it goes on to its finally
\* block and returns the empty mapping, and the cache reconciler then falls
\* back to the cached chart.
C36_GetChartSwallowsUpstreamFailures ==
    /\ [][(fn = "get_chart" /\ pc \in { "login", "segment", "accounts", "logout" }) =>
             pc' \in { "login", "segment", "accounts", "logout", "upstream_return" }]_vars
    /\ []((fn = "get_chart" /\ pc \in { "logout", "upstream_return" }
             /\ (cycle.login = "raised" \/ Count(trace, "accounts") = 0)) =>
               data = EmptyDict)
    /\ [][AccountFetchFails => data' = EmptyDict]_vars
    /\ [][(pc = "cache_return" /\ entry = "lambda_handler" /\ phase = "program"
             /\ upstream_data = EmptyDict /\ Truthy(cache_data)) =>
               (pc' = "respond" /\ data' = cache_data /\ cc.writes = 0)]_vars

\* C36 witness: the segment lookup failed after a login, get_chart returned
\* the empty mapping and the cached chart A is about to be answered
C36_Witness ==
    /\ entry = "lambda_handler" /\ pc = "respond"
    /\ cycle.login = "token"
    /\ Count(trace, "segment") = 1 /\ Count(trace, "accounts") = 0
    /\ upstream_data = EmptyDict
    /\ data = Dict(ChartA)

\* the snapshot a chart request works on
OwnSnapshot(ev) ==
    IF ev.show_inactive THEN "program-coa-full.json" ELSE "program-coa.json"

\* C37: the cache key of a request depends on hide_inactive: a request with
\* show_inactive_codes reads and writes only the "-full" snapshot, a request
\* without it only the plain snapshot, and neither changes the stored value
\* of the other.
C37_SnapshotPerHideInactive ==
    /\ []((entry = "lambda_handler" /\ pc \in { "read", "write", "cache_return" }) =>
             cache_path = OwnSnapshot(event))
    /\ [][(entry = "lambda_handler" /\ pc # "idle") =>
             \A p \in DOMAIN store :
                 p # OwnSnapshot(event) => store'[p] = store[p]]_vars

\* C37 witness: a request with show_inactive_codes has written chart B to
\* the "-full" snapshot while the plain snapshot still holds chart A
C37_Witness ==
    /\ Returned("lambda_handler")
    /\ event.show_inactive
    /\ cc.writes = 1 /\ ~cc.write_failed
    /\ store["program-coa-full.json"] = Obj(Dict(ChartB))
    /\ store["program-coa.json"] = Obj(Dict(ChartA))

\* C38: truncation and tag formatting commute: list_tags applied to
\* limit_chart(chart, n) equals the first n tags of the tag list of the whole
\* chart, as mips_api.list_tags with limit n builds it, and the whole list
\* when n = 0.
C38_LimitThenTagsIsTagsThenLimit ==
    pc = "tags" =>
        /\ tags.items = mips_api_list_tags(query.limit, processed.items)
        /\ query.limit = 0 => Len(tags.items) = Len(processed.items)
        /\ query.limit > 0 =>
              Len(tags.items) = Min(query.limit, Len(processed.items))

\* C38 witness: a chart of three entries is cut to two
C38_Witness ==
    /\ pc = "tags"
    /\ Len(processed.items) = 3 /\ query.limit = 2
    /\ Len(tags.items) = 2
    /\ tags.items[2].code = Prefix(processed.items[2].code, 6)

\* outcomes of the attempts of the _logout call under way or just over
LogoutAttempts == logouts

\* C39: _logout is retried only when the HTTP call raises a network-level
\* exception: every attempt that was followed by another one ended in such
\* an exception, and a logout answered with an HTTP error status is the last
\* attempt, ends the call and raises nothing.
C39_LogoutRetriedOnNetworkErrorsOnly ==
    /\ \A i \in 1..(Len(LogoutAttempts) - 1) : LogoutAttempts[i] = "request_exc"
    /\ \A i \in 1..Len(LogoutAttempts) :
          LogoutAttempts[i] = "http_error" =>
              /\ i = Len(LogoutAttempts)
              /\ pc = "upstream_return"
              /\ ~cycle.logout_raised

\* C39 witness: the first logout attempt failed on the network, the second
\* was answered with an HTTP error status and ended the call
C39_Witness ==
    /\ LogoutAttempts = << "request_exc", "http_error" >>
    /\ pc = "upstream_return"
    /\ cycle.logouts = 1 /\ ~cycle.logout_raised

RECURSIVE BudgetOf(_)
\* the time the calls made so far may have taken when each one used up its
\* retry budget
BudgetOf(calls) ==
    IF calls = << >> THEN 0 ELSE max_time(Head(calls)) + BudgetOf(Tail(calls))

\* C40: in one get_chart cycle the retry budgets of login, segment fetch and
\* account fetch plus the budget of the logout do not exceed the 60 seconds
\* the platform waits, so the logout can always complete before the deadline.
C40_LogoutWithinPlatformLimit ==
    (entry = "get_chart" /\ fn = "get_chart") =>
        BudgetOf(trace) <= cloudfront_max_wait

====
